---- MODULE Spec2Model ----
(***************************************************************************)
(* A model of the file-tree operations engine of the MCP filesystem server *)
(* (FileWatcher, writeFileChunks, findDuplicates, getAllFiles, the         *)
(* functions reading through a stream, the permission conversions),        *)
(* translated from the TypeScript sources.                                 *)
(***************************************************************************)
EXTENDS Integers, Sequences, FiniteSets, TLC

(***************************************************************************)
(* Bounds of the model.                                                    *)
(***************************************************************************)
\* OS watch handles ever created by one FileWatcher
MaxHandles == 2
\* closeAll() calls that may be in flight at the same time
MaxClosers == 1
\* OS change notifications delivered in one run
MaxNotes == 1
\* chunks the producer of a writeFileChunks call yields
MaxChunks == 2
\* bytes in one chunk
MaxChunkLen == 2
\* highWaterMark of the destination stream, in bytes
MaxHwm == 3
\* bytes in one file of the scanned tree
MaxContentLen == 1
\* the length of the longest pattern given to getAllFiles
MaxPatternLen == 2
\* bytes in a file read through a stream
MaxFileLen == 3
\* bits of a mode (st_mode): nine permission bits and those above
MaxModeBits == 12
\* The lines of a file searched by search_in_files
MaxLines == 2
\* The longest path the OS accepts, in components
MaxPathLen == 4

\* Paths handed to the watcher: two existing directories and a missing path.
Dirs == {"d1", "d2"}
Paths == Dirs \cup {"nx"}
\* Subscribers of the FileWatcher's 'change' event.
Subscribers == {"s1", "s2"}
\* Event types fs.watch reports, and the filenames it passes ("" stands for
\* the null filename Node passes when the platform gives none).
OsEventTypes == {"rename", "change"}
NoFilename == ""
Filenames == {NoFilename, "f.txt"}

VARIABLES
    \* ---- FileWatcher -------------------------------------------------
    watchers,   \* this.watchers: the Map's entry list (ECMA-262 [[MapData]])
    handles,    \* the FSWatcher objects fs.watch has returned: path, open
    closers,    \* the closeAll() calls: position of each one's Map iterator
    subs,       \* listeners registered for 'change'
    inbox,      \* what each listener has been called with
    notes,      \* the number of OS notifications delivered so far
    events,     \* the FileChangeEvents passed to emit('change', ...)
    last,       \* the last watcher call and how it settled
    reg,        \* per path: the handle its last successful watch registered
                \*   and no unwatch has released since (0: unwatched)
    stopped,    \* handles whose watch an unwatch/closeAll call has ended
    \* ---- writeFileChunks ---------------------------------------------
    chunks,     \* the producer: the finite sequence of chunks it yields
    hwm,        \* the destination stream's highWaterMark, in bytes
    spc,        \* where the writeFileChunks call stands
    requested,  \* chunks requested from the producer (next() calls)
    nwrites,    \* writeStream.write calls made
    blocked,    \* a write has returned false and no 'drain' has fired since
    sbuf,       \* the stream's pending chunks (in flight and buffered)
    needDrain,  \* the stream's state.needDrain
    fd,         \* the stream's file: "none", "opening", "open", "closed"
    serr,       \* the stream has reported an error and is destroyed
    file,       \* the bytes of the destination file
    ndrain,     \* 'drain' events emitted
    \* ---- findDuplicates ----------------------------------------------
    fsys,       \* the file tree under the scanned directory
    dpc,        \* where the findDuplicates call stands
    dfiles,     \* files: the paths getAllFiles returned
    dcur,       \* the index of the loop the call is in
    hashMap,    \* hashMap: the Map's entries, [hash, files]
    duplicates, \* duplicates: the groups pushed so far
    touched,    \* files another writer has rewritten since the call began
    \* ---- getAllFiles -------------------------------------------------
    wkTree,     \* the entries under the walked directory
    wkRoot,     \* what dirPath names: "dir", "file" or "missing"
    wkBad,      \* the directories whose readdir the OS refuses
    pattern,    \* the pattern argument (empty: none given)
    wkEnt,      \* per top-level entry: the state of its promise
    wkEntFiles, \* per top-level entry: the list its promise resolved with
    wkOut,      \* the promise of the call: "called", "pending", "ok", "err"
    wkFiles,    \* the list the call resolved with
    wkErr,      \* the error the call rejected with
    \* ---- calculateHash, readFileChunks, transformLines, streamCopy,
    \* ---- pipeThrough: one call reading a file through fs.ReadStream ----
    rdOp,       \* the function called
    sourceData, \* the bytes of the source file
    sourceExists, \* whether the source path names a file
    highWaterMark, \* the bytes one read of the stream asks for
    algorithm,  \* calculateHash: the algorithm argument
    failAt,     \* the call of transform / transformFn that throws (0: none)
    destBefore, \* the destination before the call: its bytes, its parent directory
    rdPc,       \* where the call stands
    rdOff,      \* bytes of the source read so far
    hashAcc,    \* calculateHash: the state of the Hash object
    remainder,  \* transformLines: remainder
    decPending, \* the stream's StringDecoder holds an incomplete character
    yielded,    \* what the generator has yielded so far
    fnCalls,    \* calls of transform / transformFn made so far
    destData,   \* the bytes of the destination file
    destOpen,   \* the destination stream's file: "none", "opening", "open", "closed"
    destParent, \* whether the destination's parent directory exists
    destBuf,    \* chunks written to the destination stream, not yet on disk
    rdRes,      \* how the call has settled
    \* ---- modeToPermissions, permissionsToMode ------------------------
    pmStart,    \* the value the conversions started from: a mode or a struct
    pmMode,     \* the mode at hand
    pmPerms,    \* the FilePermissions at hand
    pmSteps,    \* conversions applied so far
    \* The tool-call handler of the server
    tcFs,         \* the file system: the node at each path
    tcCwd,        \* the working directory of the server process
    tcReq,        \* the request: tool name and arguments
    tcPc,         \* "idle", "received", "running", "responded"
    tcInvoked,    \* how many tool handlers have been invoked
    tcResp,       \* what the caller gets: a success or an MCP error
    \* copyFile and moveFile calls running side by side
    cpFs,         \* the content of each file, "none" when it does not exist
    cpCalls,      \* each call: its operation, source and position
    \* copyDirectory
    cdFs,         \* the file system: the node at each path
    cdStart,      \* the call and the file system it started on
    cdStack,      \* the copyDirectory calls in progress, innermost last
    cdPc,         \* "idle", "running", "done", "failed"
    cdErr,        \* the error the call has failed with
    cdCalls,      \* how many copyDirectory calls have begun
    \* compareFiles
    cmFile1,      \* the first file: content, mtime and mode, or NoNode
    cmFile2,      \* the second file
    cmPc,         \* "idle", "called", "done", "failed"
    cmResult      \* areIdentical and the keys of differences

wvars == <<watchers, handles, closers, subs, inbox, notes, events, last, reg, stopped>>
svars == <<chunks, hwm, spc, requested, nwrites, blocked, sbuf, needDrain, fd, serr, file, ndrain>>
dvars == <<fsys, dpc, dfiles, dcur, hashMap, duplicates, touched>>
kvars == <<wkTree, wkRoot, wkBad, pattern, wkEnt, wkEntFiles, wkOut, wkFiles, wkErr>>
rvars == <<rdOp, sourceData, sourceExists, highWaterMark, algorithm, failAt, destBefore, rdPc, rdOff, hashAcc, remainder, decPending, yielded, fnCalls, destData, destOpen, destParent, destBuf, rdRes>>
pvars == <<pmStart, pmMode, pmPerms, pmSteps>>
tvars == <<tcFs, tcCwd, tcReq, tcPc, tcInvoked, tcResp>>
cvars == <<cpFs, cpCalls>>
yvars == <<cdFs, cdStart, cdStack, cdPc, cdErr, cdCalls>>
mvars == <<cmFile1, cmFile2, cmPc, cmResult>>
vars == <<wvars, svars, dvars, kvars, rvars, pvars, tvars, cvars, yvars, mvars>>

(***************************************************************************)
(* Map<string, FSWatcher>: the entry list of ECMA-262.  delete() empties   *)
(* the entry in place, set() of a new key appends, and an iterator is an   *)
(* index into the list, so entries deleted or added during a for-of are    *)
(* skipped or visited as the language defines.                             *)
(***************************************************************************)
EmptyEntry == [key |-> "", value |-> 0]

MapIndex(m, k) ==
    IF \E i \in 1..Len(m) : m[i] # EmptyEntry /\ m[i].key = k
    THEN CHOOSE i \in 1..Len(m) : m[i] # EmptyEntry /\ m[i].key = k
    ELSE 0

MapHas(m, k) == MapIndex(m, k) # 0

\* undefined is 0: no handle has that number
MapGet(m, k) == IF MapHas(m, k) THEN m[MapIndex(m, k)].value ELSE 0

MapSet(m, k, v) ==
    IF MapHas(m, k) THEN [m EXCEPT ![MapIndex(m, k)].value = v]
    ELSE Append(m, [key |-> k, value |-> v])

MapDeleteKeeps(m, k) == m

MapDeleteShifting(m, k) ==
    IF MapHas(m, k)
    THEN SubSeq(m, 1, MapIndex(m, k) - 1) \o SubSeq(m, MapIndex(m, k) + 1, Len(m))
    ELSE m

MapDelete(m, k) ==
    IF MapHas(m, k) THEN [m EXCEPT ![MapIndex(m, k)] = EmptyEntry] ELSE m

\* The iterator's next(): the first live entry after position idx (0: done).
IterNext(m, idx) ==
    IF \E j \in (idx + 1)..Len(m) : m[j] # EmptyEntry
    THEN CHOOSE j \in (idx + 1)..Len(m) :
            m[j] # EmptyEntry /\ \A i \in (idx + 1)..(j - 1) : m[i] = EmptyEntry
    ELSE 0

MapKeys(m) == {m[i].key : i \in {j \in 1..Len(m) : m[j] # EmptyEntry}}
MapValues(m) == {m[i].value : i \in {j \in 1..Len(m) : m[j] # EmptyEntry}}

(***************************************************************************)
(* fs.watch and FSWatcher.close of Node.                                   *)
(***************************************************************************)
\* fs.watch throws (ENOENT) for a path that does not exist.
OsCanWatch(dirPath) == dirPath \in Dirs

OpenHandles == {h \in 1..Len(handles) : handles[h].open}

CloseHandle(hs, h) == [hs EXCEPT ![h].open = FALSE]

\* path.join(dirPath, filename) for a plain filename
PathJoin(dirPath, filename) == dirPath \o "/" \o filename

(***************************************************************************)
(* FileWatcher.watchDirectory: the whole body runs synchronously.          *)
(***************************************************************************)
watchDirectoryNoCheck(ws, hs, dirPath) ==
    IF ~OsCanWatch(dirPath)
    THEN [watchers |-> ws, handles |-> hs, result |-> "WatchFailed"]
    ELSE [watchers |-> MapSet(ws, dirPath, Len(hs) + 1),
          handles |-> Append(hs, [path |-> dirPath, open |-> TRUE]),
          result |-> "ok"]

watchDirectoryReplacing(ws, hs, dirPath) ==
    IF MapHas(ws, dirPath)
    THEN [watchers |-> MapSet(ws, dirPath, Len(hs) + 1),
          handles |-> Append(hs, [path |-> dirPath, open |-> TRUE]),
          result |-> "AlreadyWatching"]
    ELSE watchDirectoryNoCheck(ws, hs, dirPath)

watchDirectory(ws, hs, dirPath) ==
    IF MapHas(ws, dirPath)
    THEN [watchers |-> ws, handles |-> hs, result |-> "AlreadyWatching"]
    ELSE IF ~OsCanWatch(dirPath)
    THEN [watchers |-> ws, handles |-> hs, result |-> "WatchFailed"]
    ELSE [watchers |-> MapSet(ws, dirPath, Len(hs) + 1),
          handles |-> Append(hs, [path |-> dirPath, open |-> TRUE]),
          result |-> "ok"]

(***************************************************************************)
(* FileWatcher.unwatchDirectory: synchronous as well.                      *)
(***************************************************************************)
unwatchDirectoryNoClose(ws, hs, dirPath) ==
    [watchers |-> MapDelete(ws, dirPath), handles |-> hs, result |-> "ok"]

unwatchDirectoryNoGuard(ws, hs, dirPath) ==
    IF MapGet(ws, dirPath) # 0
    THEN [watchers |-> MapDelete(ws, dirPath),
          handles |-> CloseHandle(hs, MapGet(ws, dirPath)),
          result |-> "ok"]
    ELSE [watchers |-> ws, handles |-> hs, result |-> "TypeError"]

unwatchDirectory(ws, hs, dirPath) ==
    IF MapGet(ws, dirPath) # 0
    THEN [watchers |-> MapDelete(ws, dirPath),
          handles |-> CloseHandle(hs, MapGet(ws, dirPath)),
          result |-> "ok"]
    ELSE [watchers |-> ws, handles |-> hs, result |-> "ok"]

(***************************************************************************)
(* The callback watchDirectory hands to fs.watch: the events it emits for  *)
(* one OS notification.                                                    *)
(***************************************************************************)
ChangeEventAddOnRename(h, dirPath, eventType, filename, n) ==
    [type |-> IF eventType = "rename" THEN "add" ELSE "change",
     path |-> PathJoin(dirPath, filename),
     handle |-> h, note |-> n]

ChangeEvent(h, dirPath, eventType, filename, n) ==
    [type |-> IF eventType = "rename" THEN "unlink" ELSE "change",
     path |-> PathJoin(dirPath, filename),
     handle |-> h, note |-> n]

watchCallbackTwice(h, dirPath, eventType, filename, n) ==
    IF filename # NoFilename
    THEN IF eventType = "rename"
         THEN <<ChangeEvent(h, dirPath, eventType, filename, n),
                ChangeEvent(h, dirPath, "change", filename, n)>>
         ELSE <<ChangeEvent(h, dirPath, eventType, filename, n)>>
    ELSE <<>>

watchCallback(h, dirPath, eventType, filename, n) ==
    IF filename # NoFilename
    THEN <<ChangeEvent(h, dirPath, eventType, filename, n)>>
    ELSE <<>>

(***************************************************************************)
(* Initial state of a new FileWatcher.                                     *)
(***************************************************************************)
IdleCloser == [pc |-> "idle", idx |-> 0, snap |-> {}]

WInit ==
    /\ watchers = <<>>
    /\ handles = <<>>
    /\ closers = [c \in 1..MaxClosers |-> IdleCloser]
    /\ subs = {}
    /\ inbox = [s \in Subscribers |-> <<>>]
    /\ notes = 0
    /\ events = <<>>
    /\ last = [op |-> "none", path |-> "", result |-> ""]
    /\ reg = [p \in Paths |-> 0]
    /\ stopped = {}

(***************************************************************************)
(* Actions of the watcher.                                                 *)
(***************************************************************************)
WatchDirectory(p) ==
    LET r == watchDirectory(watchers, handles, p) IN
    /\ Len(r.handles) <= MaxHandles
    /\ watchers' = r.watchers
    /\ handles' = r.handles
    /\ last' = [op |-> "watch", path |-> p, result |-> r.result]
    /\ reg' = IF r.result = "ok" THEN [reg EXCEPT ![p] = Len(r.handles)] ELSE reg
    /\ UNCHANGED <<closers, subs, inbox, notes, events, stopped>>
    /\ UNCHANGED <<svars, dvars, kvars, rvars, pvars, tvars, cvars, yvars, mvars>>

UnwatchDirectory(p) ==
    LET r == unwatchDirectory(watchers, handles, p) IN
    /\ watchers' = r.watchers
    /\ handles' = r.handles
    /\ last' = [op |-> "unwatch", path |-> p, result |-> r.result]
    /\ reg' = [reg EXCEPT ![p] = 0]
    /\ stopped' = IF reg[p] # 0 /\ r.result = "ok" THEN stopped \cup {reg[p]} ELSE stopped
    /\ UNCHANGED <<closers, subs, inbox, notes, events>>
    /\ UNCHANGED <<svars, dvars, kvars, rvars, pvars, tvars, cvars, yvars, mvars>>

\* One turn of closeAll's for-of loop from iterator position idx: next(),
\* then the synchronous body of unwatchDirectory, then the await; or the
\* return when the iterator is exhausted.
CloseAllTurn(c, idx, snap) ==
    LET j == IterNext(watchers, idx) IN
    IF j = 0
    THEN /\ closers' = [closers EXCEPT ![c] =
                          [pc |-> "returned", idx |-> 0, snap |-> snap]]
         /\ last' = [op |-> "closeAll", path |-> "", result |-> "ok"]
         /\ stopped' = stopped \cup snap
         /\ UNCHANGED <<watchers, handles, reg>>
    ELSE LET p == watchers[j].key
             r == unwatchDirectory(watchers, handles, p) IN
         /\ watchers' = r.watchers
         /\ handles' = r.handles
         /\ closers' = [closers EXCEPT ![c] =
                          [pc |-> "awaiting", idx |-> j, snap |-> snap]]
         /\ last' = [op |-> "unwatch", path |-> p, result |-> r.result]
         /\ reg' = [reg EXCEPT ![p] = 0]
         /\ stopped' = IF reg[p] # 0 /\ r.result = "ok" THEN stopped \cup {reg[p]} ELSE stopped

CloseAllStart(c) ==
    /\ closers[c].pc \in {"idle", "returned"}
    /\ CloseAllTurn(c, 0, {reg[p] : p \in {q \in Paths : reg[q] # 0}})
    /\ UNCHANGED <<subs, inbox, notes, events>>
    /\ UNCHANGED <<svars, dvars, kvars, rvars, pvars, tvars, cvars, yvars, mvars>>

CloseAllResume(c) ==
    /\ closers[c].pc = "awaiting"
    /\ CloseAllTurn(c, closers[c].idx, closers[c].snap)
    /\ UNCHANGED <<subs, inbox, notes, events>>
    /\ UNCHANGED <<svars, dvars, kvars, rvars, pvars, tvars, cvars, yvars, mvars>>

Subscribe(s) ==
    /\ s \notin subs
    /\ subs' = subs \cup {s}
    /\ UNCHANGED <<watchers, handles, closers, inbox, notes, events, last, reg, stopped>>
    /\ UNCHANGED <<svars, dvars, kvars, rvars, pvars, tvars, cvars, yvars, mvars>>

Unsubscribe(s) ==
    /\ s \in subs
    /\ subs' = subs \ {s}
    /\ UNCHANGED <<watchers, handles, closers, inbox, notes, events, last, reg, stopped>>
    /\ UNCHANGED <<svars, dvars, kvars, rvars, pvars, tvars, cvars, yvars, mvars>>

\* The OS reports a change to an open handle: Node calls the callback, which
\* emits synchronously to the listeners registered at that moment.
OsNotify(h, eventType, filename) ==
    /\ h \in OpenHandles
    /\ notes < MaxNotes
    /\ LET n == notes + 1
           out == watchCallback(h, handles[h].path, eventType, filename, n) IN
       /\ notes' = n
       /\ events' = events \o out
       /\ inbox' = [s \in Subscribers |-> IF s \in subs THEN inbox[s] \o out ELSE inbox[s]]
    /\ UNCHANGED <<watchers, handles, closers, subs, last, reg, stopped>>
    /\ UNCHANGED <<svars, dvars, kvars, rvars, pvars, tvars, cvars, yvars, mvars>>

(***************************************************************************)
(* writeFileChunks and the fs.WriteStream it writes to.                    *)
(***************************************************************************)
\* The bytes a chunk may hold, and the chunks and producers of the model.
Bytes == {"a", "b"}
ChunkValues == UNION {[1..n -> Bytes] : n \in 1..MaxChunkLen}
Producers == UNION {[1..n -> ChunkValues] : n \in 0..MaxChunks}
\* What the destination file holds before the call.
OldContent == <<"z">>

RECURSIVE Concat(_)
Concat(cs) == IF cs = <<>> THEN <<>> ELSE Head(cs) \o Concat(Tail(cs))

\* state.length: the bytes pending in the stream
BufBytes(buf) == Len(Concat(buf))

\* Writable.write on a live stream: the chunk is queued, and the call returns
\* whether the pending bytes stay under the highWaterMark.
StreamWriteReturn(buf, chunk, limit) == BufBytes(buf) + Len(chunk) < limit

StreamWriteDropsWhenFull(buf, chunk) ==
    IF BufBytes(buf) >= 1 /\ BufBytes(buf) + Len(chunk) >= hwm THEN buf ELSE Append(buf, chunk)

StreamWrite(buf, chunk) == Append(buf, chunk)

\* The loop body after write() has returned ret: await 'drain' or go on.
AfterWriteIgnoresReturn(ret) == "next"

AfterWrite(ret) == IF ret THEN "next" ELSE "waitDrain"

SIdle ==
    /\ chunks = <<>>
    /\ hwm = 1
    /\ spc = "idle"
    /\ requested = 0
    /\ nwrites = 0
    /\ blocked = FALSE
    /\ sbuf = <<>>
    /\ needDrain = FALSE
    /\ fd = "none"
    /\ serr = FALSE
    /\ file = OldContent
    /\ ndrain = 0

\* A call writeFileChunks(filePath, chunks) has been made.
SInit ==
    /\ chunks \in Producers
    /\ hwm \in 1..MaxHwm
    /\ spc = "mkdir"
    /\ requested = 0
    /\ nwrites = 0
    /\ blocked = FALSE
    /\ sbuf = <<>>
    /\ needDrain = FALSE
    /\ fd = "none"
    /\ serr = FALSE
    /\ file = OldContent
    /\ ndrain = 0

\* await ensureParentDir(filePath); createWriteStream(filePath), which starts
\* opening the file; the for-await asks the producer for its first chunk.
EnsureParentDir ==
    /\ spc = "mkdir"
    /\ \/ /\ spc' = "next"
          /\ fd' = "opening"
          /\ requested' = 1
       \/ /\ spc' = "failed"
          /\ UNCHANGED <<fd, requested>>
    /\ UNCHANGED <<chunks, hwm, nwrites, blocked, sbuf, needDrain, serr, file, ndrain>>
    /\ UNCHANGED <<wvars, dvars, kvars, rvars, pvars, tvars, cvars, yvars, mvars>>

\* The producer yields its next chunk: writeStream.write(chunk), and either
\* the await of 'drain' or the request for the following chunk.
ProducerYield ==
    /\ spc = "next"
    /\ requested <= Len(chunks)
    /\ LET chunk == chunks[requested]
           ret == IF serr THEN FALSE ELSE StreamWriteReturn(sbuf, chunk, hwm)
           pc2 == AfterWrite(ret) IN
       /\ nwrites' = nwrites + 1
       /\ sbuf' = IF serr THEN sbuf ELSE StreamWrite(sbuf, chunk)
       /\ needDrain' = IF serr THEN needDrain ELSE (needDrain \/ ~ret)
       /\ blocked' = ~ret
       /\ spc' = pc2
       /\ requested' = IF pc2 = "next" THEN requested + 1 ELSE requested
    /\ UNCHANGED <<chunks, hwm, fd, serr, file, ndrain>>
    /\ UNCHANGED <<wvars, dvars, kvars, rvars, pvars, tvars, cvars, yvars, mvars>>

\* The producer is exhausted: writeStream.end(callback).  On a stream that
\* has failed the callback gets the error; with nothing pending on an open
\* file the stream finishes.
ProducerDone ==
    /\ spc = "next"
    /\ requested = Len(chunks) + 1
    /\ spc' = IF serr THEN "failed"
              ELSE IF sbuf = <<>> /\ fd = "open" THEN "done"
              ELSE "ending"
    /\ fd' = IF ~serr /\ sbuf = <<>> /\ fd = "open" THEN "closed" ELSE fd
    /\ UNCHANGED <<chunks, hwm, requested, nwrites, blocked, sbuf, needDrain, serr, file, ndrain>>
    /\ UNCHANGED <<wvars, dvars, kvars, rvars, pvars, tvars, cvars, yvars, mvars>>

\* fs.open of the destination (flags 'w') completes: the file is truncated.
OsOpen ==
    /\ fd = "opening"
    /\ ~serr
    /\ file' = <<>>
    /\ IF spc = "ending" /\ sbuf = <<>>
       THEN spc' = "done" /\ fd' = "closed"
       ELSE spc' = spc /\ fd' = "open"
    /\ UNCHANGED <<chunks, hwm, requested, nwrites, blocked, sbuf, needDrain, serr, ndrain>>
    /\ UNCHANGED <<wvars, dvars, kvars, rvars, pvars, tvars, cvars, yvars, mvars>>

\* A write (or writev) of the first k pending chunks completes.  When nothing
\* is pending any more: 'drain' is emitted if a write had returned false,
\* which resumes the loop; after end() the stream finishes and the call
\* resolves.
OsWriteDone(k) ==
    /\ fd = "open"
    /\ ~serr
    /\ k \in 1..Len(sbuf)
    /\ LET rest == SubSeq(sbuf, k + 1, Len(sbuf))
           drain == rest = <<>> /\ needDrain /\ spc # "ending" IN
       /\ file' = file \o Concat(SubSeq(sbuf, 1, k))
       /\ sbuf' = rest
       /\ needDrain' = IF drain THEN FALSE ELSE needDrain
       /\ ndrain' = IF drain THEN ndrain + 1 ELSE ndrain
       /\ blocked' = IF drain THEN FALSE ELSE blocked
       /\ spc' = IF drain /\ spc = "waitDrain" THEN "next"
                 ELSE IF spc = "ending" /\ rest = <<>> THEN "done"
                 ELSE spc
       /\ requested' = IF drain /\ spc = "waitDrain" THEN requested + 1 ELSE requested
       /\ fd' = IF spc = "ending" /\ rest = <<>> THEN "closed" ELSE fd
    /\ UNCHANGED <<chunks, hwm, nwrites, serr>>
    /\ UNCHANGED <<wvars, dvars, kvars, rvars, pvars, tvars, cvars, yvars, mvars>>

\* The open or a write fails: the stream is destroyed and emits 'error'.
\* writeFileChunks has attached no 'error' listener, so the emit throws: the
\* process ends, unless the host catches uncaught exceptions (survives).
\* A pending end() callback gets the error.
OsStreamError(survives) ==
    /\ fd \in {"opening", "open"}
    /\ ~serr
    /\ spc \in {"next", "waitDrain", "ending"}
    /\ fd = "open" => (sbuf # <<>>)
    /\ serr' = TRUE
    /\ fd' = "closed"
    /\ sbuf' = <<>>
    /\ spc' = IF ~survives THEN "crashed"
              ELSE IF spc = "ending" THEN "failed"
              ELSE spc
    /\ UNCHANGED <<chunks, hwm, requested, nwrites, blocked, needDrain, file, ndrain>>
    /\ UNCHANGED <<wvars, dvars, kvars, rvars, pvars, tvars, cvars, yvars, mvars>>

(***************************************************************************)
(* findDuplicates: getAllFiles, calculateHash and the grouping.            *)
(***************************************************************************)
\* The tree under the scanned directory: entries named "a" and "b", each
\* absent, a file or a directory holding entries "a" and "b".
Names == <<"a", "b">>
TopPaths == {<<Names[i]>> : i \in 1..Len(Names)}
SubPaths == {<<Names[i], Names[j]>> : i, j \in 1..Len(Names)}
TreePaths == TopPaths \cup SubPaths
Contents == UNION {[1..n -> {0, 1}] : n \in 0..MaxContentLen}
NoNode == [kind |-> "none", data |-> <<>>]
DirNode == [kind |-> "dir", data |-> <<>>]
FileNode(c) == [kind |-> "file", data |-> c]
FileNodes == {FileNode(c) : c \in Contents}
Trees ==
    {t \in [TreePaths -> {NoNode, DirNode} \cup FileNodes] :
        \A p \in SubPaths :
            /\ t[p] # DirNode
            /\ t[p] # NoNode => t[<<p[1]>>] = DirNode}

\* hash.digest('hex') of a file's bytes: a number that differs for different
\* contents (the digest is taken to be collision-free).
RECURSIVE DigestFrom(_, _)
DigestFrom(acc, c) ==
    IF c = <<>> THEN acc ELSE DigestFrom(acc * 3 + Head(c) + 1, Tail(c))

calculateHashOfSize(t, path) == Len(t[path].data)

calculateHash(t, path) == DigestFrom(1, t[path].data)

\* fs.readdir(dirPath, {withFileTypes: true}): the entries present, by name.
ReadDir(t, dirPath) ==
    SelectSeq(Names, LAMBDA n : t[Append(dirPath, n)].kind # "none")

\* getAllFiles(dirPath): each entry gives its own list (a directory the list
\* of its walk, a file itself), and Promise.all keeps the lists in entry
\* order before flat().
RECURSIVE FlatMapEntries(_, _, _)
getAllFilesNoDescent(t, dirPath) ==
    LET es == ReadDir(t, dirPath) IN
    [i \in 1..Len(SelectSeq(es, LAMBDA n : t[Append(dirPath, n)].kind = "file")) |->
        Append(dirPath, SelectSeq(es, LAMBDA n : t[Append(dirPath, n)].kind = "file")[i])]

getAllFiles(t, dirPath) == FlatMapEntries(t, dirPath, ReadDir(t, dirPath))

FlatMapEntries(t, dirPath, es) ==
    IF es = <<>> THEN <<>>
    ELSE LET fullPath == Append(dirPath, Head(es))
             own == IF t[fullPath].kind = "dir"
                    THEN getAllFiles(t, fullPath)
                    ELSE <<fullPath>> IN
         own \o FlatMapEntries(t, dirPath, Tail(es))

\* hashMap.set(hash, [...(hashMap.get(hash) || []), file])
HashIndex(hm, hash) ==
    IF \E i \in 1..Len(hm) : hm[i].hash = hash
    THEN CHOOSE i \in 1..Len(hm) : hm[i].hash = hash
    ELSE 0

AddToHashMapReplacing(hm, hash, path) ==
    IF HashIndex(hm, hash) # 0
    THEN [hm EXCEPT ![HashIndex(hm, hash)].files = <<path>>]
    ELSE Append(hm, [hash |-> hash, files |-> <<path>>])

AddToHashMap(hm, hash, path) ==
    IF HashIndex(hm, hash) # 0
    THEN [hm EXCEPT ![HashIndex(hm, hash)].files = Append(@, path)]
    ELSE Append(hm, [hash |-> hash, files |-> <<path>>])

\* The second loop runs on without a pause to the next entry with more than
\* one file, where it awaits fs.stat (0: the loop ends).
NextGroup(hm, j) ==
    IF \E k \in (j + 1)..Len(hm) : Len(hm[k].files) > 1
    THEN CHOOSE k \in (j + 1)..Len(hm) :
            Len(hm[k].files) > 1 /\ \A i \in (j + 1)..(k - 1) : Len(hm[i].files) <= 1
    ELSE 0

DIdle ==
    /\ fsys = [p \in TreePaths |-> NoNode]
    /\ dpc = "idle"
    /\ dfiles = <<>>
    /\ dcur = 0
    /\ hashMap = <<>>
    /\ duplicates = <<>>
    /\ touched = {}

\* findDuplicates(dirPath) has been called on some tree.
DInit ==
    /\ fsys \in Trees
    /\ dpc = "walk"
    /\ dfiles = <<>>
    /\ dcur = 0
    /\ hashMap = <<>>
    /\ duplicates = <<>>
    /\ touched = {}

\* What the call does once the first loop is over: await the stat of the
\* first group, or return.
AfterHashing(hm) == IF NextGroup(hm, 0) = 0 THEN "done" ELSE "group"

\* const files = await getAllFiles(dirPath)
DWalk ==
    /\ dpc = "walk"
    /\ dfiles' = getAllFiles(fsys, <<>>)
    /\ IF dfiles' = <<>>
       THEN dpc' = "done" /\ dcur' = 0
       ELSE dpc' = "hash" /\ dcur' = 1
    /\ UNCHANGED <<fsys, hashMap, duplicates, touched>>
    /\ UNCHANGED <<wvars, svars, kvars, rvars, pvars, tvars, cvars, yvars, mvars>>

\* const hash = await calculateHash(file); hashMap.set(...)
DHash ==
    /\ dpc = "hash"
    /\ LET path == dfiles[dcur]
           hm == AddToHashMap(hashMap, calculateHash(fsys, path), path) IN
       /\ hashMap' = hm
       /\ IF dcur < Len(dfiles)
          THEN dpc' = "hash" /\ dcur' = dcur + 1
          ELSE dpc' = AfterHashing(hm) /\ dcur' = NextGroup(hm, 0)
    /\ UNCHANGED <<fsys, dfiles, duplicates, touched>>
    /\ UNCHANGED <<wvars, svars, kvars, rvars, pvars, tvars, cvars, yvars, mvars>>

\* const stats = await fs.stat(files[0]); duplicates.push({hash, size, files})
DGroup ==
    /\ dpc = "group"
    /\ LET e == hashMap[dcur] IN
       duplicates' = Append(duplicates,
            [hash |-> e.hash, size |-> Len(fsys[e.files[1]].data), files |-> e.files])
    /\ dcur' = NextGroup(hashMap, dcur)
    /\ dpc' = IF NextGroup(hashMap, dcur) = 0 THEN "done" ELSE "group"
    /\ UNCHANGED <<fsys, dfiles, hashMap, touched>>
    /\ UNCHANGED <<wvars, svars, kvars, rvars, pvars, tvars, cvars, yvars, mvars>>

\* Another process rewrites a file under the scanned directory while the call
\* is between two of its awaits.  Nothing in findDuplicates locks or
\* snapshots the tree, so the write lands whenever the OS schedules it.
OtherWriter(p, c) ==
    /\ dpc \in {"walk", "hash", "group"}
    /\ touched = {}
    /\ fsys[p].kind = "file"
    /\ fsys[p].data # c
    /\ fsys' = [fsys EXCEPT ![p] = FileNode(c)]
    /\ touched' = touched \cup {p}
    /\ UNCHANGED <<dpc, dfiles, dcur, hashMap, duplicates>>
    /\ UNCHANGED <<wvars, svars, kvars, rvars, pvars, tvars, cvars, yvars, mvars>>

(***************************************************************************)
(* getAllFiles: the recursive walk, its concurrent sub-walks and the       *)
(* pattern filter.                                                         *)
(***************************************************************************)
\* An entry that is neither a file nor a directory (a symbolic link, a
\* socket): Dirent.isDirectory() is false for it.
LinkNode == [kind |-> "link", data |-> <<>>]

\* The trees a walk is run on: what kind each entry is.
Shapes ==
    {t \in [TreePaths -> {NoNode, DirNode, FileNode(<<>>), LinkNode}] :
        \A p \in SubPaths :
            /\ t[p] # DirNode
            /\ t[p] # NoNode => t[<<p[1]>>] = DirNode}

\* A pattern is the sequence of its characters: the literals "a" and "b",
\* the wildcard ".", the assertions "^" and "$", and "[", which opens a
\* character class that nothing closes.
PatternTokens == {"a", "b", ".", "^", "$", "["}
Patterns == UNION {[1..n -> PatternTokens] : n \in 0..MaxPatternLen}

\* new RegExp(pattern) throws a SyntaxError (unterminated character class).
RegExpThrows(pat) == \E i \in 1..Len(pat) : pat[i] = "["

\* The characters of an entry name (the names here have one character each).
NameText(name) == <<name>>

\* The regular expression matches text from position pos on.
RECURSIVE MatchAt(_, _, _, _)
MatchAt(pat, i, text, pos) ==
    IF i > Len(pat) THEN TRUE
    ELSE CASE pat[i] = "^" -> pos = 1 /\ MatchAt(pat, i + 1, text, pos)
           [] pat[i] = "$" -> pos = Len(text) + 1 /\ MatchAt(pat, i + 1, text, pos)
           [] pat[i] = "." -> pos <= Len(text) /\ MatchAt(pat, i + 1, text, pos + 1)
           [] OTHER -> /\ pos <= Len(text)
                       /\ text[pos] = pat[i]
                       /\ MatchAt(pat, i + 1, text, pos + 1)

\* entry.name.match(new RegExp(pattern)) is not null: the expression matches
\* somewhere in the name.
NameMatches(name, pat) ==
    \E pos \in 1..(Len(NameText(name)) + 1) : MatchAt(pat, 1, NameText(name), pos)

\* The callback of entries.map applied to one entry, up to its first await:
\* a directory starts a walk of its own, any other entry is tested against
\* the pattern when one is given.
EntryStepFilterFirst(t, pat, fullPath) ==
    IF pat # <<>> /\ RegExpThrows(pat) THEN "throw"
    ELSE IF pat # <<>> /\ ~NameMatches(fullPath[Len(fullPath)], pat) THEN "skip"
    ELSE IF t[fullPath].kind = "dir" THEN "walk"
    ELSE "keep"

EntryStep(t, pat, fullPath) ==
    IF t[fullPath].kind = "dir" THEN "walk"
    ELSE IF pat # <<>> /\ RegExpThrows(pat) THEN "throw"
    ELSE IF pat # <<>> /\ ~NameMatches(fullPath[Len(fullPath)], pat) THEN "skip"
    ELSE "keep"

\* The promise of an entry right after entries.map, and its list.
EntryPromise(t, pat, fullPath) ==
    CASE EntryStep(t, pat, fullPath) = "walk" -> "pending"
      [] EntryStep(t, pat, fullPath) = "throw" -> "SyntaxError"
      [] OTHER -> "ok"

EntryFiles(t, pat, fullPath) ==
    IF EntryStep(t, pat, fullPath) = "keep" THEN <<fullPath>> ELSE <<>>

\* Promise.all over the promises ps: rejected once one of them is rejected,
\* fulfilled when all are fulfilled.
PromiseAllSettled(ps) ==
    IF \A i \in 1..Len(ps) : ps[i] # "pending" THEN "ok" ELSE "pending"

PromiseAll(ps) ==
    IF \E i \in 1..Len(ps) : ps[i] \notin {"pending", "ok"} THEN "err"
    ELSE IF \A i \in 1..Len(ps) : ps[i] = "ok" THEN "ok"
    ELSE "pending"

\* The first rejection among the promises ps, in entry order.
FirstRejection(ps) ==
    ps[CHOOSE i \in 1..Len(ps) :
          /\ ps[i] \notin {"pending", "ok"}
          /\ \A j \in 1..(i - 1) : ps[j] \in {"pending", "ok"}]

\* files.flat() over the lists of the fulfilled entries, in entry order.
RECURSIVE Flat(_, _)
Flat(lists, es) ==
    IF es = <<>> THEN <<>> ELSE lists[<<Head(es)>>] \o Flat(lists, Tail(es))

\* The walk of a subdirectory whose readdir has succeeded: its entries are
\* no directories, so each settles at once.
SubPromises(t, pat, d) ==
    [i \in 1..Len(ReadDir(t, d)) |-> EntryPromise(t, pat, Append(d, ReadDir(t, d)[i]))]

RECURSIVE SubFiles(_, _, _, _)
SubFiles(t, pat, d, es) ==
    IF es = <<>> THEN <<>>
    ELSE EntryFiles(t, pat, Append(d, Head(es))) \o SubFiles(t, pat, d, Tail(es))

KIdle ==
    /\ wkTree = [p \in TreePaths |-> NoNode]
    /\ wkRoot = "dir"
    /\ wkBad = {}
    /\ pattern = <<>>
    /\ wkEnt = [p \in TopPaths |-> "none"]
    /\ wkEntFiles = [p \in TopPaths |-> <<>>]
    /\ wkOut = "idle"
    /\ wkFiles = <<>>
    /\ wkErr = "none"

\* getAllFiles(dirPath, pattern) has been called: on a directory tree, some
\* of whose directories may be unreadable, or on a path that names a file
\* or nothing.
KInit ==
    /\ wkTree \in Shapes
    /\ wkRoot \in {"dir", "file", "missing"}
    /\ wkRoot # "dir" => wkTree = [p \in TreePaths |-> NoNode]
    /\ wkBad \in SUBSET ({<<>>} \cup {p \in TopPaths : wkTree[p].kind = "dir"})
    /\ wkRoot # "dir" => wkBad = {}
    /\ pattern \in Patterns
    /\ wkEnt = [p \in TopPaths |-> "none"]
    /\ wkEntFiles = [p \in TopPaths |-> <<>>]
    /\ wkOut = "called"
    /\ wkFiles = <<>>
    /\ wkErr = "none"

\* The promises of the top-level entries, in entry order.
TopPromises(ent) == [i \in 1..Len(ReadDir(wkTree, <<>>)) |-> ent[<<ReadDir(wkTree, <<>>)[i]>>]]

\* await fs.readdir(dirPath) of the call itself settles.  On success every
\* entry is mapped: the walks of the subdirectories start, the other entries
\* settle, and Promise.all settles if nothing is left pending.
ReaddirRoot ==
    /\ wkOut = "called"
    /\ IF wkRoot # "dir" \/ <<>> \in wkBad
       THEN /\ wkOut' = "err"
            /\ wkErr' = CASE wkRoot = "missing" -> "ENOENT"
                          [] wkRoot = "file" -> "ENOTDIR"
                          [] OTHER -> "EACCES"
            /\ UNCHANGED <<wkEnt, wkEntFiles, wkFiles>>
       ELSE LET ent == [p \in TopPaths |->
                          IF wkTree[p].kind = "none" THEN "none"
                          ELSE EntryPromise(wkTree, pattern, p)]
                lists == [p \in TopPaths |->
                          IF wkTree[p].kind = "none" THEN <<>>
                          ELSE EntryFiles(wkTree, pattern, p)]
                all == PromiseAll(TopPromises(ent)) IN
            /\ wkEnt' = ent
            /\ wkEntFiles' = lists
            /\ wkOut' = all
            /\ wkFiles' = IF all = "ok" THEN Flat(lists, ReadDir(wkTree, <<>>)) ELSE <<>>
            /\ wkErr' = IF all = "err" THEN FirstRejection(TopPromises(ent)) ELSE "none"
    /\ UNCHANGED <<wkTree, wkRoot, wkBad, pattern>>
    /\ UNCHANGED <<wvars, svars, dvars, rvars, pvars, tvars, cvars, yvars, mvars>>

\* The readdir of subdirectory d settles, in whatever order the OS completes
\* the outstanding reads.  The promise of d settles, and with it Promise.all
\* of the call unless that has been rejected already.
ReaddirSub(d) ==
    /\ wkEnt[d] = "pending"
    /\ LET sub == IF d \in wkBad THEN "EACCES"
                  ELSE IF PromiseAll(SubPromises(wkTree, pattern, d)) = "err"
                       THEN FirstRejection(SubPromises(wkTree, pattern, d))
                       ELSE "ok"
           ent == [wkEnt EXCEPT ![d] = sub]
           lists == [wkEntFiles EXCEPT ![d] =
                        IF sub = "ok" THEN SubFiles(wkTree, pattern, d, ReadDir(wkTree, d))
                        ELSE <<>>]
           all == PromiseAll(TopPromises(ent)) IN
       /\ wkEnt' = ent
       /\ wkEntFiles' = lists
       /\ IF wkOut = "pending"
          THEN /\ wkOut' = all
               /\ wkFiles' = IF all = "ok" THEN Flat(lists, ReadDir(wkTree, <<>>)) ELSE <<>>
               /\ wkErr' = IF all = "err" THEN sub ELSE "none"
          ELSE UNCHANGED <<wkOut, wkFiles, wkErr>>
    /\ UNCHANGED <<wkTree, wkRoot, wkBad, pattern>>
    /\ UNCHANGED <<wvars, svars, dvars, rvars, pvars, tvars, cvars, yvars, mvars>>

(***************************************************************************)
(* The functions that read a file through fs.createReadStream:             *)
(* calculateHash, readFileChunks, transformLines, streamCopy, pipeThrough. *)
(***************************************************************************)
\* The bytes of a source file.  For transformLines: 0 is the letter x, LF the
\* line feed, 2 followed by 3 the two bytes of one UTF-8 character.
LF == 1
FileContents(o) ==
    UNION {[1..n -> (IF o = "lines" THEN 0..3 ELSE 0..1)] : n \in 0..MaxFileLen}
\* What the destination file holds before a copy.
DestOld == <<1, 1>>

\* crypto.createHash(algorithm): throws for a name OpenSSL does not know.
CreateHashThrows(alg) == alg \notin {"sha256", "md5"}
HashInit(alg) == IF alg = "sha256" THEN 1 ELSE 2

\* hash.update(data)
HashUpdateRestarting(acc, data) == DigestFrom(1, data)

HashUpdate(acc, data) == DigestFrom(acc, data)

\* A promise (or generator) that has not settled, and its two outcomes.
Unsettled == [kind |-> "pending", digest |-> 0, error |-> <<>>]
Fulfilled(d) == [kind |-> "ok", digest |-> d, error |-> <<>>]
Rejected(e) == [kind |-> "err", digest |-> 0, error |-> e]

\* resolve / reject: only the first call settles the promise.
Settle(res, outcome) == IF res.kind = "pending" THEN outcome ELSE res

\* The catch blocks: new McpError(InternalError, prefix + error.message);
\* calculateHash rejects with the stream's error itself.
Failure(o, message) ==
    CASE o = "hash" -> <<message>>
      [] o = "chunks" -> <<"Failed to read file chunks: ", message>>
      [] o = "lines" -> <<"Failed to transform lines: ", message>>
      [] o = "copy" -> <<"Failed to stream copy: ", message>>
      [] o = "pipe" -> <<"Failed to pipe through transform: ", message>>

\* fs.read of up to size bytes at offset off of a regular file.
NextChunkByteWise(data, off, size) == SubSeq(data, off + 1, off + 1)

NextChunk(data, off, size) ==
    SubSeq(data, off + 1, IF off + size < Len(data) THEN off + size ELSE Len(data))

\* The stream's StringDecoder ('utf8'): the characters of the bytes, given
\* whether a first byte of a two-byte character is held back; a byte that
\* cannot continue or start a character becomes U+FFFD.
RECURSIVE DecodeChars(_, _)
DecodeChars(held, bytes) ==
    IF bytes = <<>> THEN <<>>
    ELSE IF held
         THEN IF Head(bytes) = 3
              THEN <<"U+00E9">> \o DecodeChars(FALSE, Tail(bytes))
              ELSE <<"U+FFFD">> \o DecodeChars(FALSE, bytes)
         ELSE CASE Head(bytes) = 0 -> <<"x">> \o DecodeChars(FALSE, Tail(bytes))
                [] Head(bytes) = LF -> <<"\n">> \o DecodeChars(FALSE, Tail(bytes))
                [] Head(bytes) = 2 -> DecodeChars(TRUE, Tail(bytes))
                [] OTHER -> <<"U+FFFD">> \o DecodeChars(FALSE, Tail(bytes))

DecodeHolds(held, bytes) ==
    IF bytes = <<>> THEN held ELSE bytes[Len(bytes)] = 2

\* text.split('\n')
RECURSIVE SplitLF(_)
SplitLF(text) ==
    IF \A i \in 1..Len(text) : text[i] # "\n" THEN <<text>>
    ELSE LET i == CHOOSE j \in 1..Len(text) :
                      text[j] = "\n" /\ \A k \in 1..(j - 1) : text[k] # "\n" IN
         <<SubSeq(text, 1, i - 1)>> \o SplitLF(SubSeq(text, i + 1, Len(text)))

\* remainder = lines.pop() || ''
CarryNothing(lines) == <<>>

Carry(lines) == lines[Len(lines)]

\* The transform argument of transformLines, as in the tests: toUpperCase.
lineFn(line) ==
    [i \in 1..Len(line) |->
        CASE line[i] = "x" -> "X" [] line[i] = "U+00E9" -> "U+00C9" [] OTHER -> line[i]]

\* The transformFn argument of pipeThrough: a byte-wise mapping of a chunk.
transformFn(chunk) == [i \in 1..Len(chunk) |-> chunk[i] + 2]

\* The call of transform / transformFn number k throws, or returns.
ThrowsNever(k) == FALSE

Throws(k) == failAt # 0 /\ k = failAt

\* How many of the lines are yielded before a call of transform throws.
Yields(lines) ==
    IF \E k \in 1..Len(lines) : Throws(fnCalls + k)
    THEN failAt - fnCalls - 1
    ELSE Len(lines)

\* ensureParentDir(destPath): fs.mkdir(parentDir, {recursive: true})
ensureParentDir(exists) == TRUE

\* createWriteStream(destPath) opens with flag 'w': the file is truncated.
OpenAppending(old) == old

OpenTruncating(old) == <<>>

\* A stream destroyed with chunks pending: the write the OS is working on
\* may still land, the others are dropped.
AfterDestroy(buf, open) ==
    {<<>>} \cup (IF open = "open" /\ buf # <<>> THEN {<<Head(buf)>>} ELSE {})

RIdle ==
    /\ rdOp = "hash"
    /\ sourceData = <<>>
    /\ sourceExists = FALSE
    /\ highWaterMark = 1
    /\ algorithm = "sha256"
    /\ failAt = 0
    /\ destBefore = [data |-> DestOld, parent |-> TRUE]
    /\ rdPc = "idle"
    /\ rdOff = 0
    /\ hashAcc = 0
    /\ remainder = <<>>
    /\ decPending = FALSE
    /\ yielded = <<>>
    /\ fnCalls = 0
    /\ destData = DestOld
    /\ destOpen = "none"
    /\ destParent = TRUE
    /\ destBuf = <<>>
    /\ rdRes = Unsettled

\* One of the five functions has been called.
RInit ==
    /\ rdOp \in {"hash", "chunks", "lines", "copy", "pipe"}
    /\ sourceExists \in BOOLEAN
    /\ sourceData \in (IF sourceExists THEN FileContents(rdOp) ELSE {<<>>})
    /\ highWaterMark \in 1..MaxChunkLen
    /\ algorithm \in (IF rdOp = "hash" THEN {"sha256", "md5", "sha-257"} ELSE {"sha256"})
    /\ failAt \in (IF rdOp \in {"lines", "pipe"} /\ sourceExists THEN 0..MaxFileLen ELSE {0})
    /\ destBefore \in
          (IF rdOp \in {"copy", "pipe"}
           THEN {[data |-> DestOld, parent |-> TRUE], [data |-> <<>>, parent |-> TRUE],
                 [data |-> <<>>, parent |-> FALSE]}
           ELSE {[data |-> DestOld, parent |-> TRUE]})
    /\ rdPc = "called"
    /\ rdOff = 0
    /\ hashAcc = 0
    /\ remainder = <<>>
    /\ decPending = FALSE
    /\ yielded = <<>>
    /\ fnCalls = 0
    /\ destData = destBefore.data
    /\ destOpen = "none"
    /\ destParent = destBefore.parent
    /\ destBuf = <<>>
    /\ rdRes = Unsettled

rdArgs == <<rdOp, sourceData, sourceExists, highWaterMark, algorithm, failAt, destBefore>>

\* The call up to its first wait: createHash, which may throw;
\* await ensureParentDir(destPath), createWriteStream; createReadStream.
StreamCall ==
    /\ rdPc = "called"
    /\ IF rdOp = "hash" /\ CreateHashThrows(algorithm)
       THEN /\ rdPc' = "failed"
            /\ rdRes' = Settle(rdRes, Rejected(Failure(rdOp, "Digest method not supported")))
            /\ UNCHANGED <<hashAcc, destOpen, destParent>>
       ELSE /\ rdPc' = "opening"
            /\ hashAcc' = IF rdOp = "hash" THEN HashInit(algorithm) ELSE hashAcc
            /\ destParent' = (IF rdOp \in {"copy", "pipe"} THEN ensureParentDir(destParent) ELSE destParent)
            /\ destOpen' = IF rdOp \in {"copy", "pipe"} THEN "opening" ELSE destOpen
            /\ UNCHANGED rdRes
    /\ UNCHANGED <<rdArgs, rdOff, remainder, decPending, yielded, fnCalls, destData, destBuf>>
    /\ UNCHANGED <<wvars, svars, dvars, kvars, pvars, tvars, cvars, yvars, mvars>>

\* The open of the source completes or fails (ENOENT): 'error' reaches the
\* listener, the for-await or the pipeline, and the destination stream is
\* destroyed.
OsOpenRead ==
    /\ rdPc = "opening"
    /\ IF sourceExists
       THEN /\ rdPc' = "flowing"
            /\ UNCHANGED <<rdRes, destBuf>>
       ELSE /\ rdPc' = "failed"
            /\ rdRes' = Settle(rdRes, Rejected(Failure(rdOp, "ENOENT")))
            /\ destBuf' = <<>>
    /\ UNCHANGED <<rdArgs, rdOff, hashAcc, remainder, decPending, yielded, fnCalls,
                   destData, destOpen, destParent>>
    /\ UNCHANGED <<wvars, svars, dvars, kvars, pvars, tvars, cvars, yvars, mvars>>

\* transformLines yields transform(line) for each line of body until a call
\* throws; after the last chunk the generator returns.
YieldLines(body, atEnd) ==
    LET n == Yields(body)
        thrown == n < Len(body) IN
    /\ yielded' = yielded \o [i \in 1..n |-> lineFn(body[i])]
    /\ fnCalls' = fnCalls + (IF thrown THEN n + 1 ELSE n)
    /\ rdPc' = IF thrown THEN "failed" ELSE IF atEnd THEN "done" ELSE "flowing"
    /\ rdRes' = IF thrown THEN Settle(rdRes, Rejected(Failure(rdOp, "lineFn error")))
                ELSE IF atEnd THEN Settle(rdRes, Fulfilled(0))
                ELSE rdRes

\* A read of the source completes: the chunk reaches the 'data' listener,
\* the body of the for-await, or the next stream of the pipeline.
OsRead ==
    /\ rdPc = "flowing"
    /\ rdOff < Len(sourceData)
    /\ LET chunk == NextChunk(sourceData, rdOff, highWaterMark) IN
       /\ rdOff' = rdOff + Len(chunk)
       /\ CASE rdOp = "hash" ->
                 /\ hashAcc' = HashUpdate(hashAcc, chunk)
                 /\ UNCHANGED <<rdPc, rdRes, remainder, decPending, yielded, fnCalls, destBuf>>
            [] rdOp = "chunks" ->
                 /\ yielded' = Append(yielded, chunk)
                 /\ UNCHANGED <<rdPc, rdRes, hashAcc, remainder, decPending, fnCalls, destBuf>>
            [] rdOp = "lines" ->
                 /\ decPending' = DecodeHolds(decPending, chunk)
                 /\ LET lines == SplitLF(remainder \o DecodeChars(decPending, chunk)) IN
                       /\ remainder' = Carry(lines)
                       /\ YieldLines(SubSeq(lines, 1, Len(lines) - 1), FALSE)
                 /\ UNCHANGED <<hashAcc, destBuf>>
            [] rdOp = "copy" ->
                 /\ destBuf' = Append(destBuf, chunk)
                 /\ UNCHANGED <<rdPc, rdRes, hashAcc, remainder, decPending, yielded, fnCalls>>
            [] rdOp = "pipe" ->
                 /\ fnCalls' = fnCalls + 1
                 /\ IF Throws(fnCalls + 1)
                    THEN /\ rdPc' = "failed"
                         /\ rdRes' = Settle(rdRes, Rejected(Failure(rdOp, "Transform error")))
                         /\ destBuf' \in AfterDestroy(destBuf, destOpen)
                    ELSE /\ destBuf' = Append(destBuf, transformFn(chunk))
                         /\ UNCHANGED <<rdPc, rdRes>>
                 /\ UNCHANGED <<hashAcc, remainder, decPending, yielded>>
    /\ UNCHANGED <<rdArgs, destData, destOpen, destParent>>
    /\ UNCHANGED <<wvars, svars, dvars, kvars, pvars, tvars, cvars, yvars, mvars>>

\* The read at the end of the file returns no byte.  A decoder that holds an
\* incomplete character gives it out as a last chunk; otherwise 'end': the
\* hash is resolved; the for-await ends and transformLines yields what is
\* left in remainder; the pipeline ends the destination, which finishes
\* once everything is on disk.
OsReadEnd ==
    /\ rdPc = "flowing"
    /\ rdOff = Len(sourceData)
    /\ CASE rdOp = "hash" ->
              /\ rdPc' = "done"
              /\ rdRes' = Settle(rdRes, Fulfilled(hashAcc))
              /\ UNCHANGED <<remainder, decPending, yielded, fnCalls, destOpen>>
         [] rdOp = "chunks" ->
              /\ rdPc' = "done"
              /\ rdRes' = Settle(rdRes, Fulfilled(0))
              /\ UNCHANGED <<remainder, decPending, yielded, fnCalls, destOpen>>
         [] rdOp = "lines" ->
              /\ decPending' = FALSE
              /\ IF decPending
                 THEN /\ remainder' = Carry(SplitLF(remainder \o <<"U+FFFD">>))
                      /\ YieldLines(<<>>, FALSE)
                 ELSE /\ remainder' = remainder
                      /\ YieldLines(IF remainder # <<>> THEN <<remainder>> ELSE <<>>, TRUE)
              /\ UNCHANGED destOpen
         [] OTHER ->
              /\ IF destBuf = <<>> /\ destOpen = "open"
                 THEN rdPc' = "done" /\ rdRes' = Settle(rdRes, Fulfilled(0)) /\ destOpen' = "closed"
                 ELSE rdPc' = "ended" /\ UNCHANGED <<rdRes, destOpen>>
              /\ UNCHANGED <<remainder, decPending, yielded, fnCalls>>
    /\ UNCHANGED <<rdArgs, rdOff, hashAcc, destData, destParent, destBuf>>
    /\ UNCHANGED <<wvars, svars, dvars, kvars, pvars, tvars, cvars, yvars, mvars>>

\* A read, or the close after 'end', fails: 'error'.  An error after the
\* promise has been resolved changes nothing.
OsReadError ==
    /\ \/ rdPc = "flowing"
       \/ rdPc = "done" /\ rdOp = "hash"
    /\ rdPc' = IF rdPc = "flowing" THEN "failed" ELSE "done"
    /\ rdRes' = Settle(rdRes, Rejected(Failure(rdOp, "EIO")))
    /\ destBuf' \in AfterDestroy(destBuf, destOpen)
    /\ UNCHANGED <<rdArgs, rdOff, hashAcc, remainder, decPending, yielded, fnCalls,
                   destData, destOpen, destParent>>
    /\ UNCHANGED <<wvars, svars, dvars, kvars, pvars, tvars, cvars, yvars, mvars>>

\* The open of the destination completes: the file exists and is empty.  A
\* stream destroyed meanwhile closes the file at once.
OsOpenWrite ==
    /\ destOpen = "opening"
    /\ destData' = OpenTruncating(destData)
    /\ IF rdPc = "failed" THEN destOpen' = "closed" /\ UNCHANGED <<rdPc, rdRes>>
       ELSE IF rdPc = "ended" /\ destBuf = <<>>
       THEN destOpen' = "closed" /\ rdPc' = "done" /\ rdRes' = Settle(rdRes, Fulfilled(0))
       ELSE destOpen' = "open" /\ UNCHANGED <<rdPc, rdRes>>
    /\ UNCHANGED <<rdArgs, rdOff, hashAcc, remainder, decPending, yielded, fnCalls,
                   destParent, destBuf>>
    /\ UNCHANGED <<wvars, svars, dvars, kvars, pvars, tvars, cvars, yvars, mvars>>

\* The write of the first pending chunk completes; after the source's end
\* and the last write the destination finishes and the pipeline resolves.
OsWrite ==
    /\ destOpen = "open"
    /\ destBuf # <<>>
    /\ destData' = destData \o Head(destBuf)
    /\ destBuf' = Tail(destBuf)
    /\ IF rdPc = "failed" THEN destOpen' = "closed" /\ UNCHANGED <<rdPc, rdRes>>
       ELSE IF rdPc = "ended" /\ Tail(destBuf) = <<>>
       THEN destOpen' = "closed" /\ rdPc' = "done" /\ rdRes' = Settle(rdRes, Fulfilled(0))
       ELSE UNCHANGED <<destOpen, rdPc, rdRes>>
    /\ UNCHANGED <<rdArgs, rdOff, hashAcc, remainder, decPending, yielded, fnCalls, destParent>>
    /\ UNCHANGED <<wvars, svars, dvars, kvars, pvars, tvars, cvars, yvars, mvars>>

(***************************************************************************)
(* modeToPermissions and permissionsToMode.                                *)
(***************************************************************************)
\* a & b and a | b on non-negative integers
RECURSIVE BitAnd(_, _)
BitAnd(a, b) ==
    IF a = 0 \/ b = 0 THEN 0
    ELSE (a % 2) * (b % 2) + 2 * BitAnd(a \div 2, b \div 2)

RECURSIVE BitOr(_, _)
BitOr(a, b) ==
    IF a = 0 THEN b
    ELSE IF b = 0 THEN a
    ELSE (IF a % 2 = 1 \/ b % 2 = 1 THEN 1 ELSE 0) + 2 * BitOr(a \div 2, b \div 2)

\* stats.mode: the permission bits and the bits above them
Modes == 0..(2 ^ MaxModeBits - 1)

\* interface FilePermissions
FilePermissions ==
    [{"owner", "group", "others"} -> [read : BOOLEAN, write : BOOLEAN, execute : BOOLEAN]]

modeToPermissions(mode) ==
    [owner |-> [read |-> BitAnd(mode, 256) # 0,
                write |-> BitAnd(mode, 128) # 0,
                execute |-> BitAnd(mode, 64) # 0],
     group |-> [read |-> BitAnd(mode, 32) # 0,
                write |-> BitAnd(mode, 16) # 0,
                execute |-> BitAnd(mode, 8) # 0],
     others |-> [read |-> BitAnd(mode, 4) # 0,
                 write |-> BitAnd(mode, 2) # 0,
                 execute |-> BitAnd(mode, 1) # 0]]

\* if (permissions.x.y) mode |= bit
OrIf(mode, flag, bit) == IF flag THEN BitOr(mode, bit) ELSE mode

permissionsToModeGroupBitsSwapped(permissions) ==
    OrIf(OrIf(OrIf(OrIf(OrIf(OrIf(OrIf(OrIf(OrIf(0,
        permissions.owner.read, 256), permissions.owner.write, 128),
        permissions.owner.execute, 64), permissions.group.read, 16),
        permissions.group.write, 32), permissions.group.execute, 8),
        permissions.others.read, 4), permissions.others.write, 2),
        permissions.others.execute, 1)

permissionsToMode(permissions) ==
    OrIf(OrIf(OrIf(OrIf(OrIf(OrIf(OrIf(OrIf(OrIf(0,
        permissions.owner.read, 256), permissions.owner.write, 128),
        permissions.owner.execute, 64), permissions.group.read, 32),
        permissions.group.write, 16), permissions.group.execute, 8),
        permissions.others.read, 4), permissions.others.write, 2),
        permissions.others.execute, 1)

PIdle ==
    /\ pmStart = [from |-> "none", mode |-> 0, permissions |-> modeToPermissions(0)]
    /\ pmMode = 0
    /\ pmPerms = modeToPermissions(0)
    /\ pmSteps = 0

\* A mode, or a FilePermissions value, is at hand.
PInit ==
    /\ pmStart \in
          {[from |-> "mode", mode |-> m, permissions |-> modeToPermissions(0)] : m \in Modes}
          \cup {[from |-> "permissions", mode |-> 0, permissions |-> p] : p \in FilePermissions}
    /\ pmMode = pmStart.mode
    /\ pmPerms = pmStart.permissions
    /\ pmSteps = 0

\* permissions = modeToPermissions(mode)
ModeToPermissions ==
    /\ pmSteps < 2
    /\ (pmStart.from = "mode") = (pmSteps = 0)
    /\ pmPerms' = modeToPermissions(pmMode)
    /\ pmSteps' = pmSteps + 1
    /\ UNCHANGED <<pmStart, pmMode>>
    /\ UNCHANGED <<wvars, svars, dvars, kvars, rvars, tvars, cvars, yvars, mvars>>

\* mode = permissionsToMode(permissions)
PermissionsToMode ==
    /\ pmSteps < 2
    /\ (pmStart.from = "permissions") = (pmSteps = 0)
    /\ pmMode' = permissionsToMode(pmPerms)
    /\ pmSteps' = pmSteps + 1
    /\ UNCHANGED <<pmStart, pmPerms>>
    /\ UNCHANGED <<wvars, svars, dvars, kvars, rvars, tvars, cvars, yvars, mvars>>

(***************************************************************************)
(* The CallTool request handler, the tool registry and the handlers of     *)
(* read_file, copy_file and search_in_files.                               *)
(***************************************************************************)
\* A file's text is its lines joined by "\n".
TcLines == {<<"a">>, <<"b">>}
RECURSIVE JoinLF(_)
JoinLF(lines) ==
    IF lines = <<>> THEN <<>>
    ELSE IF Len(lines) = 1 THEN lines[1]
    ELSE lines[1] \o <<"\n">> \o JoinLF(Tail(lines))
TcTexts == {JoinLF(ls) : ls \in UNION {[1..n -> TcLines] : n \in 0..MaxLines}}

\* The directories of the model and the names fs.readdir reports, relative
\* to the directory read; a path is a directory and a relative name.
TcDirs == {"/w", "/d"}
TcRel == <<"a.txt", "sub", "sub/b.txt">>
TcPaths == TcDirs \X {TcRel[i] : i \in 1..Len(TcRel)}
TcFileOrNone == {NoNode} \cup {FileNode(t) : t \in TcTexts}
TcFileSystems ==
    {[p \in TcPaths |->
         CASE p = <<"/d", "a.txt">> -> c[1]
           [] p = <<"/d", "sub">> -> IF c[2] THEN DirNode ELSE NoNode
           [] p = <<"/d", "sub/b.txt">> -> c[3]
           [] p = <<"/w", "a.txt">> -> c[4]
           [] OTHER -> NoNode] :
        c \in {x \in TcFileOrNone \X BOOLEAN \X TcFileOrNone
                        \X {NoNode, FileNode(<<"a">>)} :
                  x[2] \/ x[3] = NoNode}}

\* The requests of the model.
TcRequest(name, p, q, pat, flag) ==
    [name |-> name, path |-> p, destination |-> q, pattern |-> pat, flag |-> flag]
TcRequests ==
    {TcRequest("read_file", p, p, <<>>, FALSE) :
        p \in {<<"/d", "a.txt">>, <<"/d", "sub">>, <<"/w", "a.txt">>}}
    \cup {TcRequest("readFileWithMetadata", p, p, <<>>, FALSE) :
        p \in {<<"/d", "a.txt">>, <<"/d", "sub">>}}
    \cup {TcRequest("copy_file", <<"/w", "a.txt">>, <<"/d", "a.txt">>, <<>>, o) :
        o \in BOOLEAN}
    \cup {TcRequest("search_in_files", d, d, pat, r) :
        d \in TcDirs, pat \in {<<"a">>, <<"^", "b">>, <<"[">>}, r \in BOOLEAN}
    \cup {TcRequest("delete_everything", <<"/d", "a.txt">>, <<"/d", "a.txt">>, <<>>, FALSE)}

\* What a call comes to: a value, an McpError or any other Error.
Returns(body) == [kind |-> "ok", code |-> "", body |-> body]
ThrowsMcpError(code, message) == [kind |-> "mcp", code |-> code, body |-> message]
ThrowsError(message) == [kind |-> "error", code |-> "", body |-> message]

\* toolRegistry.hasTool: the names registered by the constructor.
hasTool(name) == name \in {"read_file", "copy_file", "search_in_files"}

\* normalizePath of a relative name: path.resolve resolves it against the
\* working directory of the process.
normalizePath(cwd, filePath) == <<cwd, filePath>>

\* readFileWithMetadata: a directory is refused before the file is read.
readFileWithMetadata(fs, filePath) ==
    CASE fs[filePath].kind = "none" -> ThrowsError("ENOENT")
      [] fs[filePath].kind = "dir" ->
            ThrowsMcpError("InvalidRequest", <<"Cannot read directory as file: ", filePath>>)
      [] OTHER -> Returns(fs[filePath].data)

\* The handler of read_file: fs.readFile, which fails on a directory with
\* EISDIR and on a missing path with ENOENT, then getFileStats.
read_file(fs, args) ==
    CASE fs[args.path].kind = "file" -> Returns(fs[args.path].data)
      [] fs[args.path].kind = "dir" -> ThrowsError("EISDIR")
      [] OTHER -> ThrowsError("ENOENT")

\* copyFile, and the handler of copy_file around it; with the result comes
\* the file system the call leaves.
copyFile(fs, sourcePath, destPath, overwrite) ==
    IF ~overwrite /\ fs[destPath].kind # "none"
    THEN [fs |-> fs,
          result |-> ThrowsMcpError("InvalidRequest",
                                    <<"Destination file already exists: ", destPath>>)]
    ELSE IF fs[sourcePath].kind # "file"
    THEN [fs |-> fs, result |-> ThrowsError("ENOENT")]
    ELSE IF fs[destPath].kind = "dir"
    THEN [fs |-> fs, result |-> ThrowsError("EISDIR")]
    ELSE [fs |-> [fs EXCEPT ![destPath] = fs[sourcePath]], result |-> Returns("stats")]

copy_file(fs, args) == copyFile(fs, args.path, args.destination, args.flag)

\* searchInFile: one record for each line that line.match(pattern) matches,
\* in line order, with match[0] of the leftmost match.
searchInFile(fs, filePath, pat) ==
    LET lines == SplitLF(fs[filePath].data)
        Starts(line) == {q \in 1..(Len(line) + 1) : MatchAt(pat, 1, line, q)}
        First(line) == CHOOSE q \in Starts(line) : \A k \in Starts(line) : q <= k
        width == Len(SelectSeq(pat, LAMBDA c : c \notin {"^", "$"}))
        recs == [i \in 1..Len(lines) |->
                    [file |-> filePath, line |-> i, content |-> lines[i],
                     match |-> IF Starts(lines[i]) = {} THEN <<>>
                               ELSE SubSeq(lines[i], First(lines[i]),
                                           First(lines[i]) + width - 1)]] IN
    SelectSeq(recs, LAMBDA m : Starts(m.content) # {})

\* The search of the names fs.readdir(dirPath) or fs.readdir(dirPath,
\* {recursive: true}) lists, relative to dirPath, each looked up at
\* base/name.
SearchListed(fs, dirPath, base, pat, recursive) ==
    LET files == SelectSeq(TcRel, LAMBDA r : fs[<<dirPath, r>>].kind # "none"
                                               /\ (recursive \/ r # "sub/b.txt")) IN
    Concat([i \in 1..Len(files) |->
              LET fullPath == normalizePath(base, files[i]) IN
              IF fs[fullPath].kind = "file" THEN searchInFile(fs, fullPath, pat)
              ELSE <<>>])

\* The handler of search_in_files: every listed name goes through
\* normalizePath on its own.
search_in_files(fs, cwd, args) ==
    IF RegExpThrows(args.pattern) THEN ThrowsError("Invalid regular expression")
    ELSE Returns(SearchListed(fs, args.path, cwd, args.pattern, args.flag))

\* getToolHandler(name)(arguments).
ToolHandler(fs, cwd, req) ==
    CASE req.name = "read_file" -> [fs |-> fs, result |-> read_file(fs, req)]
      [] req.name = "copy_file" -> copy_file(fs, req)
      [] OTHER -> [fs |-> fs, result |-> search_in_files(fs, cwd, req)]

\* The catch block of the CallTool handler.
CallToolCatchWrapsAll(outcome) ==
    CASE outcome.kind = "ok" -> [kind |-> "success", code |-> "", body |-> outcome.body]
      [] OTHER -> [kind |-> "error", code |-> "InternalError",
                   body |-> <<"File system error: ", outcome.body>>]

CallToolCatch(outcome) ==
    CASE outcome.kind = "ok" -> [kind |-> "success", code |-> "", body |-> outcome.body]
      [] outcome.kind = "mcp" -> [kind |-> "error", code |-> outcome.code, body |-> outcome.body]
      [] OTHER -> [kind |-> "error", code |-> "InternalError",
                   body |-> <<"File system error: ", outcome.body>>]

NoResponse == [kind |-> "none", code |-> "", body |-> <<>>]

TIdle ==
    /\ tcFs = [p \in TcPaths |-> NoNode]
    /\ tcCwd = "/w"
    /\ tcReq = TcRequest("", <<"/w", "a.txt">>, <<"/w", "a.txt">>, <<>>, FALSE)
    /\ tcPc = "idle"
    /\ tcInvoked = 0
    /\ tcResp = NoResponse

\* A request has arrived.
TInit ==
    /\ tcFs \in TcFileSystems
    /\ tcCwd \in TcDirs
    /\ tcReq \in TcRequests
    /\ tcPc = "received"
    /\ tcInvoked = 0
    /\ tcResp = NoResponse

\* The CallTool handler up to the await of the tool's handler.
CallTool ==
    /\ tcPc = "received"
    /\ tcReq.name # "readFileWithMetadata"
    /\ IF ~hasTool(tcReq.name)
       THEN /\ tcResp' = CallToolCatch(ThrowsMcpError("MethodNotFound",
                                                      <<"Unknown tool: ", tcReq.name>>))
            /\ tcPc' = "responded"
            /\ UNCHANGED tcInvoked
       ELSE /\ tcInvoked' = tcInvoked + 1
            /\ tcPc' = "running"
            /\ UNCHANGED tcResp
    /\ UNCHANGED <<tcFs, tcCwd, tcReq>>
    /\ UNCHANGED <<wvars, svars, dvars, kvars, rvars, pvars, cvars, yvars, mvars>>

\* The tool's handler settles, and the CallTool handler with it.
HandlerSettles ==
    /\ tcPc = "running"
    /\ LET out == ToolHandler(tcFs, tcCwd, tcReq) IN
       /\ tcFs' = out.fs
       /\ tcResp' = CallToolCatch(out.result)
    /\ tcPc' = "responded"
    /\ UNCHANGED <<tcCwd, tcReq, tcInvoked>>
    /\ UNCHANGED <<wvars, svars, dvars, kvars, rvars, pvars, cvars, yvars, mvars>>

\* readFileWithMetadata called by itself: its outcome is the caller's.
ReadFileWithMetadata ==
    /\ tcPc = "received"
    /\ tcReq.name = "readFileWithMetadata"
    /\ LET out == readFileWithMetadata(tcFs, tcReq.path) IN
       tcResp' = [kind |-> IF out.kind = "ok" THEN "success" ELSE "error",
                  code |-> out.code, body |-> out.body]
    /\ tcPc' = "responded"
    /\ UNCHANGED <<tcFs, tcCwd, tcReq, tcInvoked>>
    /\ UNCHANGED <<wvars, svars, dvars, kvars, rvars, pvars, cvars, yvars, mvars>>

(***************************************************************************)
(* copyFile and moveFile with overwrite = false: two calls with the same   *)
(* destination, each suspended at its awaits.                              *)
(***************************************************************************)
CpCallIds == {1, 2}
CpDest == "d"
CpSource(c) == IF c = 1 THEN "s1" ELSE "s2"
CpFiles == {"s1", "s2", CpDest}

\* if (!overwrite && await fs.access(destPath)...) throw; then
\* await ensureParentDir(destPath).
AccessCheck(c) ==
    /\ cpCalls[c].pc = "start"
    /\ cpCalls' = [cpCalls EXCEPT ![c].pc =
                      IF cpFs[CpDest] # "none" THEN "exists" ELSE "checked"]
    /\ UNCHANGED cpFs
    /\ UNCHANGED <<wvars, svars, dvars, kvars, rvars, pvars, tvars, yvars, mvars>>

\* await fs.copyFile(sourcePath, destPath): without COPYFILE_EXCL an
\* existing destination is replaced.
CopyFileAct(c) ==
    /\ cpCalls[c].pc = "checked"
    /\ cpCalls[c].op = "copy"
    /\ IF cpFs[CpSource(c)] = "none"
       THEN /\ cpCalls' = [cpCalls EXCEPT ![c].pc = "enoent"]
            /\ UNCHANGED cpFs
       ELSE /\ cpCalls' = [cpCalls EXCEPT ![c].pc = "done"]
            /\ cpFs' = [cpFs EXCEPT ![CpDest] = cpFs[CpSource(c)]]
    /\ UNCHANGED <<wvars, svars, dvars, kvars, rvars, pvars, tvars, yvars, mvars>>

\* await fs.rename(sourcePath, destPath): an existing destination is
\* replaced, the source is gone.
MoveFileAct(c) ==
    /\ cpCalls[c].pc = "checked"
    /\ cpCalls[c].op = "move"
    /\ IF cpFs[CpSource(c)] = "none"
       THEN /\ cpCalls' = [cpCalls EXCEPT ![c].pc = "enoent"]
            /\ UNCHANGED cpFs
       ELSE /\ cpCalls' = [cpCalls EXCEPT ![c].pc = "done"]
            /\ cpFs' = [cpFs EXCEPT ![CpDest] = cpFs[CpSource(c)],
                                    ![CpSource(c)] = "none"]
    /\ UNCHANGED <<wvars, svars, dvars, kvars, rvars, pvars, tvars, yvars, mvars>>

CIdle ==
    /\ cpFs = [f \in CpFiles |-> "none"]
    /\ cpCalls = [c \in CpCallIds |-> [op |-> "copy", pc |-> "idle"]]

\* One or two calls have been made; the destination exists or not.
CInit ==
    /\ cpFs \in {f \in [CpFiles -> {"none", "A", "B", "Z"}] :
                    /\ f["s1"] \in {"none", "A"}
                    /\ f["s2"] \in {"none", "B"}
                    /\ f[CpDest] \in {"none", "Z"}}
    /\ cpCalls \in {cs \in [CpCallIds -> [op : {"copy", "move"}, pc : {"start", "idle"}]] :
                       cs[1].pc = "start"}

(***************************************************************************)
(* copyDirectory: the recursive copy of a directory tree.                  *)
(***************************************************************************)
\* A path is the sequence of its components: a root and entry names.
CdRoots == {"s", "t"}
CdNames == <<"d", "f", "o">>
CdPaths ==
    UNION {{<<r>> \o q : r \in CdRoots,
                         q \in [1..n -> {CdNames[i] : i \in 1..Len(CdNames)}]} :
              n \in 0..(MaxPathLen - 1)}

\* The file systems a call starts on: the source directory <<"s">> with a
\* file and a subdirectory, and a destination outside it that may exist
\* and hold entries of its own.
CdFileSystems ==
    {[p \in CdPaths |->
         CASE p = <<"s">> -> DirNode
           [] p = <<"s", "f">> -> c[1]
           [] p = <<"s", "d">> -> IF c[2] THEN DirNode ELSE NoNode
           [] p = <<"s", "d", "f">> -> c[3]
           [] p = <<"t">> -> IF c[4] THEN DirNode ELSE NoNode
           [] p = <<"t", "f">> -> c[5]
           [] p = <<"t", "o">> -> c[6]
           [] OTHER -> NoNode] :
        c \in {x \in {NoNode, FileNode("new")} \X BOOLEAN \X {NoNode, FileNode("new")}
                        \X BOOLEAN \X {NoNode, FileNode("old")} \X {NoNode, FileNode("old")} :
                  /\ x[2] \/ x[3] = NoNode
                  /\ x[4] \/ (x[5] = NoNode /\ x[6] = NoNode)}}

CdFrame(sourcePath, destPath) ==
    [pc |-> "enter", src |-> sourcePath, dst |-> destPath, todo |-> <<>>]
CdTop == cdStack[Len(cdStack)]
CdFail(message) ==
    /\ cdPc' = "failed"
    /\ cdErr' = message
    /\ UNCHANGED <<cdFs, cdStack>>

\* fs.readdir(sourcePath, {withFileTypes: true}).
CdReaddir(fs, dirPath) ==
    IF Len(dirPath) >= MaxPathLen THEN <<>>
    ELSE SelectSeq(CdNames, LAMBDA n : fs[Append(dirPath, n)].kind # "none")

\* makeDirectory(destPath): fs.mkdir with recursive: true.
makeDirectory(fs, dirPath) == [fs EXCEPT ![dirPath] = DirNode]

CYIdle ==
    /\ cdFs = <<>>
    /\ cdStart = [source |-> <<>>, dest |-> <<>>, overwrite |-> FALSE, fs |-> <<>>]
    /\ cdStack = <<>>
    /\ cdPc = "idle"
    /\ cdErr = ""
    /\ cdCalls = 0

\* copyDirectory(<<"s">>, dest, overwrite) has been called; dest lies
\* outside the source or inside it.
CYInit ==
    /\ cdFs \in CdFileSystems
    /\ cdStart \in {[source |-> <<"s">>, dest |-> d, overwrite |-> o, fs |-> cdFs] :
                       d \in {<<"t">>, <<"s", "d">>}, o \in BOOLEAN}
    /\ cdStack = <<CdFrame(cdStart.source, cdStart.dest)>>
    /\ cdPc = "running"
    /\ cdErr = ""
    /\ cdCalls = 0

\* A copyDirectory call from its start to the listing of the source: stat,
\* the test of the destination, makeDirectory, readdir.
CopyDirectoryEnter ==
    /\ cdPc = "running"
    /\ CdTop.pc = "enter"
    /\ cdCalls' = cdCalls + 1
    /\ LET src == CdTop.src
           dst == CdTop.dst IN
       IF Len(src) > MaxPathLen \/ Len(dst) > MaxPathLen
       THEN CdFail("ENAMETOOLONG")
       ELSE IF cdFs[src].kind = "none" THEN CdFail("ENOENT")
       ELSE IF cdFs[src].kind # "dir" THEN CdFail("Source is not a directory")
       ELSE IF ~cdStart.overwrite /\ cdFs[dst].kind # "none"
       THEN CdFail("Destination directory already exists")
       ELSE IF cdFs[dst].kind = "file" THEN CdFail("EEXIST")
       ELSE /\ cdFs' = makeDirectory(cdFs, dst)
            /\ cdStack' = [cdStack EXCEPT ![Len(cdStack)] =
                              [pc |-> "loop", src |-> src, dst |-> dst,
                               todo |-> CdReaddir(cdFs', src)]]
            /\ UNCHANGED <<cdPc, cdErr>>
    /\ UNCHANGED cdStart
    /\ UNCHANGED <<wvars, svars, dvars, kvars, rvars, pvars, tvars, cvars, mvars>>

\* The loop body for an entry that is a directory: the recursive call.
CopyDirectoryDescend ==
    /\ cdPc = "running"
    /\ CdTop.pc = "loop"
    /\ CdTop.todo # <<>>
    /\ LET entry == Head(CdTop.todo) IN
       /\ cdFs[Append(CdTop.src, entry)].kind = "dir"
       /\ cdStack' = Append([cdStack EXCEPT ![Len(cdStack)].todo = Tail(CdTop.todo)],
                            CdFrame(Append(CdTop.src, entry), Append(CdTop.dst, entry)))
    /\ UNCHANGED <<cdFs, cdStart, cdPc, cdErr, cdCalls>>
    /\ UNCHANGED <<wvars, svars, dvars, kvars, rvars, pvars, tvars, cvars, mvars>>

\* The loop body for any other entry: copyFile(srcPath, dstPath, overwrite).
CopyDirectoryFile ==
    /\ cdPc = "running"
    /\ CdTop.pc = "loop"
    /\ CdTop.todo # <<>>
    /\ LET entry == Head(CdTop.todo)
           srcPath == Append(CdTop.src, entry)
           dstPath == Append(CdTop.dst, entry) IN
       /\ cdFs[srcPath].kind # "dir"
       /\ IF Len(dstPath) > MaxPathLen
          THEN CdFail("ENAMETOOLONG")
          ELSE LET out == copyFile(cdFs, srcPath, dstPath, cdStart.overwrite) IN
               IF out.result.kind # "ok"
               THEN CdFail(out.result.body)
               ELSE /\ cdFs' = out.fs
                    /\ cdStack' = [cdStack EXCEPT ![Len(cdStack)].todo = Tail(CdTop.todo)]
                    /\ UNCHANGED <<cdPc, cdErr>>
    /\ UNCHANGED <<cdStart, cdCalls>>
    /\ UNCHANGED <<wvars, svars, dvars, kvars, rvars, pvars, tvars, cvars, mvars>>

\* The loop has run out of entries: the call resolves, and its caller's
\* loop goes on.
CopyDirectoryReturn ==
    /\ cdPc = "running"
    /\ CdTop.pc = "loop"
    /\ CdTop.todo = <<>>
    /\ cdStack' = SubSeq(cdStack, 1, Len(cdStack) - 1)
    /\ cdPc' = IF Len(cdStack) = 1 THEN "done" ELSE "running"
    /\ UNCHANGED <<cdFs, cdStart, cdErr, cdCalls>>
    /\ UNCHANGED <<wvars, svars, dvars, kvars, rvars, pvars, tvars, cvars, mvars>>

(***************************************************************************)
(* compareFiles.                                                           *)
(***************************************************************************)
\* A file with its content and what fs.stat reports besides the size.
CmFiles == [kind : {"file"}, data : Contents, mtime : {1, 2}, mode : {"644", "600"}]

\* compareFiles on two files that exist: the keys set in differences, and
\* areIdentical.
compareFiles(f1, f2) ==
    LET size == IF Len(f1.data) # Len(f2.data) THEN {"size"} ELSE {}
        modificationTime == IF f1.mtime # f2.mtime THEN {"modificationTime"} ELSE {}
        permissions == IF f1.mode # f2.mode THEN {"permissions"} ELSE {}
        content == IF size # {} \/ f1.data # f2.data THEN {"content"} ELSE {}
        differences == size \cup modificationTime \cup permissions \cup content IN
    [areIdentical |-> differences = {}, differences |-> differences]

MIdle ==
    /\ cmFile1 = NoNode
    /\ cmFile2 = NoNode
    /\ cmPc = "idle"
    /\ cmResult = [areIdentical |-> FALSE, differences |-> {}]

\* compareFiles has been called on two distinct paths; the second may not
\* exist.
MInit ==
    /\ cmFile1 \in CmFiles
    /\ cmFile2 \in CmFiles \cup {NoNode}
    /\ cmPc = "called"
    /\ cmResult = [areIdentical |-> FALSE, differences |-> {}]

\* The call runs: fs.stat of both files, then the comparison; a failed
\* stat is rethrown as McpError(InternalError, "Failed to compare files").
CompareFiles ==
    /\ cmPc = "called"
    /\ IF cmFile2.kind = "none"
       THEN cmPc' = "failed" /\ UNCHANGED cmResult
       ELSE cmPc' = "done" /\ cmResult' = compareFiles(cmFile1, cmFile2)
    /\ UNCHANGED <<cmFile1, cmFile2>>
    /\ UNCHANGED <<wvars, svars, dvars, kvars, rvars, pvars, tvars, cvars, yvars>>

(***************************************************************************)
(* The specifications.                                                     *)
(***************************************************************************)
\* The FileWatcher under any interleaving of its calls and of the OS.
WNext ==
    \/ \E p \in Paths : WatchDirectory(p)
    \/ \E p \in Paths : UnwatchDirectory(p)
    \/ \E c \in 1..MaxClosers : CloseAllStart(c)
    \/ \E c \in 1..MaxClosers : CloseAllResume(c)
    \/ \E h \in 1..MaxHandles, t \in OsEventTypes, f \in Filenames : OsNotify(h, t, f)

Init == WInit /\ SIdle /\ DIdle /\ KIdle /\ RIdle /\ PIdle /\ TIdle /\ CIdle /\ CYIdle /\ MIdle

Spec == Init /\ [][WNext]_vars

\* The watcher with its subscribers: watch, unwatch, subscribe, notify.
ENext ==
    \/ \E p \in Paths : WatchDirectory(p)
    \/ \E p \in Paths : UnwatchDirectory(p)
    \/ \E s \in Subscribers : Subscribe(s)
    \/ \E s \in Subscribers : Unsubscribe(s)
    \/ \E h \in 1..MaxHandles, t \in OsEventTypes, f \in Filenames : OsNotify(h, t, f)

SpecEvents == Init /\ [][ENext]_vars

\* One writeFileChunks call, its producer and its destination stream.
SNext ==
    \/ EnsureParentDir
    \/ ProducerYield
    \/ ProducerDone
    \/ OsOpen
    \/ \E k \in 1..(MaxChunks + 1) : OsWriteDone(k)
    \/ \E survives \in BOOLEAN : OsStreamError(survives)

InitWrite == WInit /\ SInit /\ DIdle /\ KIdle /\ RIdle /\ PIdle /\ TIdle /\ CIdle /\ CYIdle /\ MIdle

SpecWrite == InitWrite /\ [][SNext]_vars

\* One findDuplicates call on a file tree.
DNext ==
    \/ DWalk
    \/ DHash
    \/ DGroup

InitDup == WInit /\ SIdle /\ DInit /\ KIdle /\ RIdle /\ PIdle /\ TIdle /\ CIdle /\ CYIdle /\ MIdle

SpecDup == InitDup /\ [][DNext]_vars

\* One findDuplicates call while another process writes to the tree.
DRNext ==
    \/ DWalk
    \/ DHash
    \/ DGroup
    \/ \E p \in TreePaths, c \in Contents : OtherWriter(p, c)

SpecDupRace == InitDup /\ [][DRNext]_vars

\* One getAllFiles call and the reads of its sub-walks.
KNext ==
    \/ ReaddirRoot
    \/ \E d \in TopPaths : ReaddirSub(d)

InitWalk == WInit /\ SIdle /\ DIdle /\ KInit /\ RIdle /\ PIdle /\ TIdle /\ CIdle /\ CYIdle /\ MIdle

SpecWalk == InitWalk /\ [][KNext]_vars

\* One call of a function that reads a file through a stream.
RNext ==
    \/ StreamCall
    \/ OsOpenRead
    \/ OsRead
    \/ OsReadEnd
    \/ OsReadError
    \/ OsOpenWrite
    \/ OsWrite

InitRead == WInit /\ SIdle /\ DIdle /\ KIdle /\ RInit /\ PIdle /\ TIdle /\ CIdle /\ CYIdle /\ MIdle

SpecRead == InitRead /\ [][RNext]_vars

\* A mode converted to permissions and back, and the other way round.
PNext ==
    \/ ModeToPermissions
    \/ PermissionsToMode

InitPerm == WInit /\ SIdle /\ DIdle /\ KIdle /\ RIdle /\ PInit /\ TIdle /\ CIdle /\ CYIdle /\ MIdle

SpecPerm == InitPerm /\ [][PNext]_vars

\* A tool call, or a call of readFileWithMetadata.
TNext ==
    \/ CallTool
    \/ HandlerSettles
    \/ ReadFileWithMetadata

InitTool == WInit /\ SIdle /\ DIdle /\ KIdle /\ RIdle /\ PIdle /\ TInit /\ CIdle /\ CYIdle /\ MIdle

SpecTool == InitTool /\ [][TNext]_vars

\* copyFile and moveFile calls interleaved at their awaits.
CNext ==
    \E c \in CpCallIds :
        \/ AccessCheck(c)
        \/ CopyFileAct(c)
        \/ MoveFileAct(c)

InitCopy == WInit /\ SIdle /\ DIdle /\ KIdle /\ RIdle /\ PIdle /\ TIdle /\ CInit /\ CYIdle /\ MIdle

SpecCopy == InitCopy /\ [][CNext]_vars

\* One copyDirectory call and the calls it makes.
YNext ==
    \/ CopyDirectoryEnter
    \/ CopyDirectoryDescend
    \/ CopyDirectoryFile
    \/ CopyDirectoryReturn

InitCopyDir == WInit /\ SIdle /\ DIdle /\ KIdle /\ RIdle /\ PIdle /\ TIdle /\ CIdle /\ CYInit /\ MIdle

SpecCopyDir == InitCopyDir /\ [][YNext]_vars

\* One compareFiles call.
MNext == CompareFiles

InitCompare == WInit /\ SIdle /\ DIdle /\ KIdle /\ RIdle /\ PIdle /\ TIdle /\ CIdle /\ CYIdle /\ MInit

SpecCompare == InitCompare /\ [][MNext]_vars

(***************************************************************************)
(* Properties of the FileWatcher.                                          *)
(***************************************************************************)
\* C1: a watchDirectory(p) call made while p is watched (a watch of p has
\* succeeded and no unwatch of p has followed) is rejected as
\* AlreadyWatching and only then; a watchDirectory(p) of a directory that is
\* not watched, in particular after unwatchDirectory(p), succeeds and
\* registers a handle for p.
C1_WatchTwiceRejected ==
    [][\A p \in Paths : WatchDirectory(p) =>
          /\ (last'.result = "AlreadyWatching") <=> (reg[p] # 0)
          /\ (reg[p] = 0 /\ p \in Dirs) =>
                (last'.result = "ok" /\ reg'[p] \in OpenHandles' /\ reg'[p] \notin stopped')]_vars

\* p was watched, unwatched and watched again, and one more watch of p has
\* just been rejected.
C1_Witness ==
    /\ last.op = "watch" /\ last.result = "AlreadyWatching"
    /\ \E h \in stopped : handles[h].path = last.path
    /\ reg[last.path] # 0

\* C2: every path has at most one open OS handle, and the open handles are
\* exactly the values of the path->handle map.
C2_OneHandlePerPath ==
    /\ \A h1, h2 \in OpenHandles : handles[h1].path = handles[h2].path => h1 = h2
    /\ OpenHandles = MapValues(watchers)
    /\ \A i, j \in 1..Len(watchers) :
          (watchers[i] # EmptyEntry /\ watchers[j] # EmptyEntry
             /\ watchers[i].key = watchers[j].key) => i = j
    /\ \A i \in 1..Len(watchers) :
          watchers[i] # EmptyEntry => handles[watchers[i].value].path = watchers[i].key

\* A closeAll is half way: one handle closed, another still open and mapped.
C2_Witness ==
    /\ \E c \in 1..MaxClosers : closers[c].pc = "awaiting"
    /\ OpenHandles # {}
    /\ \E h \in 1..Len(handles) : ~handles[h].open

\* C3: once unwatchDirectory(p) has run, or a closeAll() has returned, the
\* handles those calls ended (the one registered for p; those registered
\* when closeAll was called) emit no ChangeEvent any more.
C3_NoEventAfterStop ==
    [][\A i \in (Len(events) + 1)..Len(events') : events'[i].handle \notin stopped]_vars

\* A closeAll has returned that ended a handle which had emitted an event.
C3_Witness ==
    \E c \in 1..MaxClosers :
        /\ closers[c].pc = "returned"
        /\ \E h \in closers[c].snap : \E i \in 1..Len(events) : events[i].handle = h

\* C4: when closeAll() returns, every handle that was registered when it was
\* called is closed and out of the map, and the map is empty (so it is empty
\* in particular when no watchDirectory call was made meanwhile): the
\* iteration skips no entry.
C4_CloseAllClosesEvery ==
    [][\A c \in 1..MaxClosers :
          ((CloseAllStart(c) \/ CloseAllResume(c)) /\ closers'[c].pc = "returned") =>
             /\ \A h \in closers'[c].snap :
                   ~handles'[h].open /\ h \notin MapValues(watchers')
             /\ MapKeys(watchers') = {}]_vars

\* A closeAll that was called with two paths watched has returned.
C4_Witness ==
    \E c \in 1..MaxClosers :
        closers[c].pc = "returned" /\ Cardinality(closers[c].snap) >= 2

\* C6: unwatchDirectory(p) of a path that is not watched succeeds and
\* changes neither the map nor any handle.
C6_UnwatchUnwatchedNoop ==
    [][\A p \in Paths : (UnwatchDirectory(p) /\ reg[p] = 0) =>
          /\ last'.result = "ok"
          /\ watchers' = watchers
          /\ handles' = handles]_vars

\* unwatchDirectory of a path never watched has returned while another
\* path's watch is open.
C6_Witness ==
    /\ last.op = "unwatch" /\ last.result = "ok"
    /\ \A h \in 1..Len(handles) : handles[h].path # last.path
    /\ OpenHandles # {}

\* C5 as amended: an OS notification for an open watch that carries a
\* filename yields exactly one ChangeEvent, delivered once to every listener
\* registered at that moment and to no other; a notification without a
\* filename yields no event.
C5_OneEventPerNamedNotification ==
    [][\A h \in 1..MaxHandles, t \in OsEventTypes, f \in Filenames :
          OsNotify(h, t, f) =>
             IF f # NoFilename
             THEN /\ Len(events') = Len(events) + 1
                  /\ events'[Len(events')].handle = h
                  /\ \A s \in Subscribers :
                        inbox'[s] = IF s \in subs
                                    THEN Append(inbox[s], events'[Len(events')])
                                    ELSE inbox[s]
             ELSE events' = events /\ inbox' = inbox]_vars

\* A notification with a filename has been delivered to two listeners.
C5_Witness ==
    /\ Len(events) = 1
    /\ \A s \in Subscribers : inbox[s] = events

\* C5 as claimed: every OS notification for an open watch yields exactly one
\* ChangeEvent delivered to every listener registered at that moment.
C5_EveryNotificationOneEvent ==
    [][\A h \in 1..MaxHandles, t \in OsEventTypes, f \in Filenames :
          OsNotify(h, t, f) =>
             /\ Len(events') = Len(events) + 1
             /\ \A s \in subs : Len(inbox'[s]) = Len(inbox[s]) + 1]_vars

(***************************************************************************)
(* Properties of writeFileChunks.                                          *)
(***************************************************************************)
\* C7: once a write has returned false, writeFileChunks requests no chunk
\* from the producer and issues no write until 'drain' has fired; so the
\* chunks pending ahead of the last one written are always under the
\* highWaterMark: at most one chunk goes beyond the limit.
C7_BackpressureSuspends ==
    /\ [](sbuf # <<>> => BufBytes(SubSeq(sbuf, 1, Len(sbuf) - 1)) < hwm)
    /\ [][/\ blocked' => requested' = requested
          /\ blocked => nwrites' = nwrites
          /\ (blocked /\ ~blocked') => ndrain' = ndrain + 1]_vars

\* The call waits for 'drain' with more than a buffer pending, and the
\* producer, which has a chunk left, has not been asked for it.
C7_Witness ==
    /\ spc = "waitDrain" /\ blocked /\ ~serr
    /\ BufBytes(sbuf) > hwm
    /\ requested = nwrites /\ nwrites < Len(chunks)

\* C8: when writeFileChunks resolves, the destination file holds exactly the
\* concatenation of the producer's chunks in production order, whatever the
\* highWaterMark.
C8_FileIsConcatenation ==
    spc = "done" => file = Concat(chunks)

\* A call with two chunks has resolved after a drain/resume cycle.
C8_Witness ==
    /\ spc = "done" /\ ndrain >= 1
    /\ Len(chunks) >= 2 /\ file = Concat(chunks)

\* C9: once the destination stream has reported an error, the call has
\* failed or can still take a step towards failing: it is not stuck, and it
\* has not resolved.
C9_StreamErrorFailsCall ==
    serr => (spc = "failed" \/ (spc # "done" /\ ENABLED SNext))

(***************************************************************************)
(* Properties of findDuplicates.                                           *)
(***************************************************************************)
FilesIn(t) == {p \in TreePaths : t[p].kind = "file"}
SeqRange(q) == {q[i] : i \in 1..Len(q)}
SameDigest(t, p) == {q \in FilesIn(t) : DigestFrom(1, t[q].data) = DigestFrom(1, t[p].data)}

\* C10: the result of findDuplicates has exactly one group for each digest
\* that two or more files of the tree share, the group's members being
\* exactly the files with that digest, each once; a file with a digest of
\* its own is in no group, and a tree without shared digests gives no group.
C10_GroupsAreSharedDigests ==
    dpc = "done" =>
        /\ \A p \in FilesIn(fsys) :
              Cardinality(SameDigest(fsys, p)) >= 2 =>
                 \E i \in 1..Len(duplicates) :
                    /\ duplicates[i].hash = DigestFrom(1, fsys[p].data)
                    /\ SeqRange(duplicates[i].files) = SameDigest(fsys, p)
        /\ \A i \in 1..Len(duplicates) :
              /\ Len(duplicates[i].files) >= 2
              /\ Cardinality(SeqRange(duplicates[i].files)) = Len(duplicates[i].files)
              /\ \E p \in FilesIn(fsys) :
                    /\ duplicates[i].hash = DigestFrom(1, fsys[p].data)
                    /\ SeqRange(duplicates[i].files) = SameDigest(fsys, p)
        /\ \A i, j \in 1..Len(duplicates) : duplicates[i].hash = duplicates[j].hash => i = j

\* A scan has returned a group that joins a top-level file with a file of a
\* subdirectory, and has left another file out of every group.
C10_Witness ==
    /\ dpc = "done"
    /\ \E i \in 1..Len(duplicates) :
          /\ SeqRange(duplicates[i].files) \cap TopPaths # {}
          /\ SeqRange(duplicates[i].files) \cap SubPaths # {}
    /\ \E p \in FilesIn(fsys) : \A i \in 1..Len(duplicates) : p \notin SeqRange(duplicates[i].files)

(***************************************************************************)
(* findDuplicates while another process writes to the tree.                *)
(***************************************************************************)
\* C11: in every group findDuplicates returns, each member that no other
\* writer has rewritten since the call began has the group's digest, and
\* when the first member is such a file the reported size is the size of
\* every such member; with no concurrent write at all, every member has the
\* group's digest and the group's size.
C11_GroupsOfUntouchedFiles ==
    dpc = "done" =>
        \A i \in 1..Len(duplicates) :
            LET g == duplicates[i] IN
            /\ \A f \in SeqRange(g.files) \ touched :
                  DigestFrom(1, fsys[f].data) = g.hash
            /\ g.files[1] \notin touched =>
                  \A f \in SeqRange(g.files) \ touched : Len(fsys[f].data) = g.size

\* A scan during which another process has rewritten a file has returned a
\* group with that file and an unwritten file in it.
C11_Witness ==
    /\ dpc = "done"
    /\ touched # {}
    /\ \E i \in 1..Len(duplicates) :
          /\ SeqRange(duplicates[i].files) \cap touched # {}
          /\ SeqRange(duplicates[i].files) \ touched # {}

\* C11 as stated: every member of every returned group has the group's
\* digest and the group's size, concurrent writes or not.
C11_GroupsHoldUnderWrites ==
    dpc = "done" =>
        \A i \in 1..Len(duplicates) :
            \A f \in SeqRange(duplicates[i].files) :
                /\ DigestFrom(1, fsys[f].data) = duplicates[i].hash
                /\ Len(fsys[f].data) = duplicates[i].size

(***************************************************************************)
(* Properties of getAllFiles.                                              *)
(***************************************************************************)
\* The entries under the walked directory that are no directories.
NonDirsIn(t) == {p \in TreePaths : t[p].kind \notin {"none", "dir"}}
BaseName(p) == p[Len(p)]

\* C12: a walk that succeeds returns every entry under the root, at any
\* depth, that is not a directory, each once, and no directory; with a
\* pattern it returns exactly the entries of the pattern-less walk whose
\* basename the pattern matches, in the same order, whether or not the names
\* of the directories above them match.
C12_WalkReturnsMatchingFiles ==
    wkOut = "ok" =>
        /\ pattern = <<>> =>
              /\ wkFiles = getAllFiles(wkTree, <<>>)
              /\ SeqRange(wkFiles) = NonDirsIn(wkTree)
              /\ Cardinality(SeqRange(wkFiles)) = Len(wkFiles)
        /\ pattern # <<>> =>
              wkFiles = SelectSeq(getAllFiles(wkTree, <<>>),
                                  LAMBDA p : NameMatches(BaseName(p), pattern))
        /\ \A i \in 1..Len(wkFiles) : wkTree[wkFiles[i]].kind # "dir"

\* A walk with a pattern has returned a file of a subdirectory whose own name
\* the pattern does not match, and has left out an entry that does not match.
C12_Witness ==
    /\ wkOut = "ok"
    /\ pattern # <<>>
    /\ \E i \in 1..Len(wkFiles) :
          /\ Len(wkFiles[i]) = 2
          /\ ~NameMatches(wkFiles[i][1], pattern)
    /\ \E p \in NonDirsIn(wkTree) : p \notin SeqRange(wkFiles)
    /\ \E p \in NonDirsIn(wkTree) : wkTree[p].kind = "link" /\ p \in SeqRange(wkFiles)

\* A readdir of the walk has failed: that of the root (missing, not a
\* directory, unreadable) or that of a subdirectory.
SomeReaddirFailed ==
    \/ wkOut \notin {"idle", "called"} /\ (wkRoot # "dir" \/ <<>> \in wkBad)
    \/ \E d \in TopPaths : wkEnt[d] = "EACCES"

\* C13: as soon as the readdir of the root or of any subdirectory has failed
\* the call is rejected, with no list, whichever sub-walks have completed
\* before or are still running; a call that succeeds has read the root and
\* every subdirectory.
C13_FailedReadFailsWalk ==
    /\ SomeReaddirFailed => (wkOut = "err" /\ wkFiles = <<>> /\ wkErr # "none")
    /\ wkOut = "ok" =>
          /\ wkRoot = "dir"
          /\ <<>> \notin wkBad
          /\ \A d \in TopPaths : wkTree[d].kind = "dir" => (d \notin wkBad /\ wkEnt[d] = "ok")

\* One sub-walk has failed after another had completed with files, and the
\* call is rejected.
C13_Witness ==
    /\ wkOut = "err"
    /\ \E d, e \in TopPaths :
          /\ wkEnt[d] = "EACCES"
          /\ wkEnt[e] = "ok"
          /\ wkTree[e].kind = "dir"
          /\ wkEntFiles[e] # <<>>

\* C14: a call with a malformed pattern never succeeds, whatever the tree.
C14_MalformedPatternFails ==
    RegExpThrows(pattern) => wkOut # "ok"

(***************************************************************************)
(* Properties of the functions that read a file through a stream.          *)
(***************************************************************************)
\* C15: the promise of calculateHash settles once and never changes after:
\* it is resolved only when the algorithm is known, the file exists and all
\* of it has been read, and then with the digest of the whole content; it is
\* rejected when createHash throws, when the open fails and when a read
\* fails; and it is settled whenever the call has nothing left to wait for.
C15_HashSettlesOnce ==
    /\ [](rdOp = "hash" =>
            /\ rdRes.kind = "ok" =>
                  /\ rdRes.digest = DigestFrom(HashInit(algorithm), sourceData)
                  /\ sourceExists
                  /\ ~CreateHashThrows(algorithm)
            /\ (rdPc \notin {"idle", "called"} /\ CreateHashThrows(algorithm)) => rdRes.kind = "err"
            /\ (rdPc \notin {"idle", "called", "opening"} /\ ~sourceExists) => rdRes.kind = "err"
            /\ rdPc = "failed" => rdRes.kind = "err"
            /\ rdPc = "done" => rdRes.kind = "ok"
            /\ rdPc \in {"called", "opening", "flowing"} => rdRes.kind = "pending")
    /\ [][(rdOp = "hash" /\ rdRes.kind # "pending") => rdRes' = rdRes]_vars

\* A file longer than one read has been hashed to the end.
C15_Witness ==
    /\ rdOp = "hash"
    /\ rdRes.kind = "ok"
    /\ Len(sourceData) > highWaterMark
    /\ algorithm = "md5"

(***************************************************************************)
(* Properties of the permission conversions.                               *)
(***************************************************************************)
\* C16: converting a FilePermissions value to a mode and back gives the
\* value again; converting a mode to permissions and back gives the mode's
\* nine low bits (mode AND 0o777); and 0o755 converts to owner rwx, group
\* r-x, others r-x, and back to 0o755.
C16_ConversionsAreInverse ==
    /\ (pmStart.from = "permissions" /\ pmSteps = 2) => pmPerms = pmStart.permissions
    /\ (pmStart.from = "mode" /\ pmSteps = 2) => pmMode = pmStart.mode % 512
    /\ (pmStart.from = "mode" /\ pmStart.mode = 493 /\ pmSteps >= 1) =>
          pmPerms = [owner |-> [read |-> TRUE, write |-> TRUE, execute |-> TRUE],
                     group |-> [read |-> TRUE, write |-> FALSE, execute |-> TRUE],
                     others |-> [read |-> TRUE, write |-> FALSE, execute |-> TRUE]]
    /\ (pmStart.from = "mode" /\ pmStart.mode = 493 /\ pmSteps = 2) => pmMode = 493

\* A mode with a bit above the nine permission bits, and with the group's
\* read bit but not its write bit, has been converted and converted back.
C16_Witness ==
    /\ pmStart.from = "mode"
    /\ pmSteps = 2
    /\ pmStart.mode >= 512
    /\ pmPerms.group.read /\ ~pmPerms.group.write

\* q is an initial part of r.
IsPrefix(q, r) == Len(q) <= Len(r) /\ q = SubSeq(r, 1, Len(q))

\* C17: when streamCopy has resolved, the destination holds exactly the
\* bytes of the source, whatever it held before, so both have the same
\* digest, and nothing is left pending; the destination is opened only once
\* its parent directory exists.
C17_CopyIsIdentical ==
    rdOp = "copy" =>
        /\ rdRes.kind = "ok" =>
              /\ destData = sourceData
              /\ DigestFrom(1, destData) = DigestFrom(1, sourceData)
              /\ destBuf = <<>>
              /\ rdOff = Len(sourceData)
        /\ destOpen # "none" => destParent

\* A source of several chunks has been copied over a destination that held
\* other bytes; and a copy into a missing directory has succeeded.
C17_Witness ==
    /\ rdOp = "copy"
    /\ rdRes.kind = "ok"
    /\ Len(sourceData) > highWaterMark
    /\ \/ destBefore.data # <<>> /\ destBefore.data # sourceData
       \/ ~destBefore.parent

\* The lines of the file as C18 defines them: the text split on line feed,
\* the last segment left out when it is empty.
FileText ==
    DecodeChars(FALSE, sourceData)
        \o (IF DecodeHolds(FALSE, sourceData) THEN <<"U+FFFD">> ELSE <<>>)
FileLines ==
    LET segs == SplitLF(FileText) IN
    IF segs[Len(segs)] = <<>> THEN SubSeq(segs, 1, Len(segs) - 1) ELSE segs

\* C18: transformLines yields lineFn of the file's lines, in order: at any
\* moment an initial part of them, all of them when the generator returns,
\* whatever the size of the reads; when a call of lineFn throws, the
\* generator throws, having yielded the lines before that call and made no
\* call after it.
C18_LinesInOrder ==
    rdOp = "lines" =>
        /\ Len(yielded) <= Len(FileLines)
        /\ \A i \in 1..Len(yielded) : yielded[i] = lineFn(FileLines[i])
        /\ rdRes.kind = "ok" => Len(yielded) = Len(FileLines)
        /\ (failAt \in 1..Len(FileLines)) => rdRes.kind # "ok"
        /\ (rdRes.kind = "err" /\ rdRes.error[2] = "lineFn error") =>
              /\ Len(yielded) = failAt - 1
              /\ fnCalls = failAt
        /\ fnCalls <= Len(FileLines)

\* A file whose lines and whose two-byte character are cut by the reads has
\* been transformed to the end; its last line has no line feed.
C18_Witness ==
    /\ rdOp = "lines"
    /\ rdRes.kind = "ok"
    /\ highWaterMark = 1
    /\ Len(yielded) >= 2
    /\ yielded[Len(yielded)] = <<"U+00C9">>

\* C19: the chunks readFileChunks yields are not empty and not longer than
\* chunkSize, all but the last have exactly chunkSize bytes, and their
\* concatenation is what has been read of the file: the whole content when
\* the generator returns.
C19_ChunksConcatenate ==
    rdOp = "chunks" =>
        /\ Concat(yielded) = SubSeq(sourceData, 1, rdOff)
        /\ \A i \in 1..Len(yielded) : Len(yielded[i]) \in 1..highWaterMark
        /\ \A i \in 1..(Len(yielded) - 1) : Len(yielded[i]) = highWaterMark
        /\ rdRes.kind = "ok" => Concat(yielded) = sourceData

\* A file has been read to the end in several chunks, the last one short.
C19_Witness ==
    /\ rdOp = "chunks"
    /\ rdRes.kind = "ok"
    /\ Len(yielded) >= 2
    /\ Len(yielded[Len(yielded)]) < highWaterMark

\* The bytes of the source in the chunks before the one transformFn throws on.
BeforeThrow ==
    SubSeq(sourceData, 1,
           IF (failAt - 1) * highWaterMark < Len(sourceData)
           THEN (failAt - 1) * highWaterMark ELSE Len(sourceData))

\* C20: once transformFn has thrown on a chunk, pipeThrough is rejected with
\* an error that carries the exception's message, transformFn is not called
\* again, and the destination holds what it held before or an initial part
\* of the transformed chunks that came before the throw; a call in which
\* transformFn is to throw on a chunk of the file never resolves.
C20_TransformErrorAborts ==
    rdOp = "pipe" =>
        /\ fnCalls <= (IF failAt = 0 THEN fnCalls ELSE failAt)
        /\ (failAt # 0 /\ fnCalls = failAt) =>
              /\ rdRes.kind = "err"
              /\ rdRes.error = <<"Failed to pipe through transform: ", "Transform error">>
              /\ \/ destData = destBefore.data
                 \/ IsPrefix(destData, transformFn(BeforeThrow))
        /\ (failAt # 0 /\ (failAt - 1) * highWaterMark < Len(sourceData)) => rdRes.kind # "ok"

\* transformFn has thrown on the second chunk after the first had been
\* transformed and written.
C20_Witness ==
    /\ rdOp = "pipe"
    /\ failAt = 2
    /\ fnCalls = 2
    /\ rdRes.kind = "err"
    /\ destData # <<>>
    /\ destData # destBefore.data
    /\ destOpen = "closed"

(***************************************************************************)
(* C27: a watchDirectory(p) call that fails, because p is already watched  *)
(* or because the OS refuses the watch, leaves the watcher as it was: the  *)
(* map of watchers and every handle are unchanged, so a handle p already   *)
(* had stays open and registered, and the call is rejected as              *)
(* AlreadyWatching exactly when p was in the map before the call.          *)
(***************************************************************************)
C27_FailedWatchLeavesState ==
    [][\A p \in Paths :
          (WatchDirectory(p) /\ last'.result # "ok") =>
              /\ watchers' = watchers
              /\ handles' = handles
              /\ reg' = reg
              /\ (last'.result = "AlreadyWatching") <=> MapHas(watchers, p)
              /\ (last'.result = "WatchFailed") => ~MapHas(watchers', p)]_vars

\* The OS has refused a watch while another directory is being watched.
C27_Witness ==
    /\ last.op = "watch"
    /\ last.result = "WatchFailed"
    /\ ~MapHas(watchers, last.path)
    /\ \E d \in Dirs : MapHas(watchers, d) /\ handles[MapGet(watchers, d)].open

(***************************************************************************)
(* C28: every emitted ChangeEvent has the watched directory joined with    *)
(* the reported filename as its path, and its type is "unlink" when the OS *)
(* notification type is "rename" and "change" for every other type; no     *)
(* event of type "add" is ever emitted.                                    *)
(***************************************************************************)
C28_EventTypeAndPath ==
    /\ [](\A i \in 1..Len(events) : events[i].type \in {"unlink", "change"})
    /\ [][\A h \in 1..MaxHandles, t \in OsEventTypes, f \in Filenames :
             OsNotify(h, t, f) =>
                 IF f = NoFilename
                 THEN events' = events
                 ELSE /\ Len(events') = Len(events) + 1
                      /\ events'[Len(events')].path = handles[h].path \o "/" \o f
                      /\ events'[Len(events')].type =
                             IF t = "rename" THEN "unlink" ELSE "change"]_vars

\* A notification of type "rename" has been delivered as an "unlink" event.
C28_Witness ==
    \E i \in 1..Len(events) :
        /\ events[i].type = "unlink"
        /\ \E d \in Dirs, f \in Filenames : events[i].path = d \o "/" \o f

(***************************************************************************)
(* C30: when streamCopy fails because the source cannot be opened, the     *)
(* destination holds what it held before the call.                         *)
(***************************************************************************)
C30_FailedOpenLeavesDest ==
    (rdOp = "copy" /\ ~sourceExists /\ rdPc = "failed") =>
        destData = destBefore.data

(***************************************************************************)
(* C24: a search_in_files call for directory D and pattern P returns one   *)
(* match record (file, 1-based line number, line content, matched text)    *)
(* for each line matching P in each file under D, recursively unless       *)
(* recursive = false, in increasing line order within a file.              *)
(***************************************************************************)
C24_SearchFindsAllMatches ==
    (tcPc = "responded" /\ tcReq.name = "search_in_files"
        /\ ~RegExpThrows(tcReq.pattern)) =>
        tcResp = [kind |-> "success", code |-> "",
                  body |-> SearchListed(tcFs, tcReq.path, tcReq.path,
                                        tcReq.pattern, tcReq.flag)]

(***************************************************************************)
(* C25: a failing tool call reaches the caller as an MCP error and never   *)
(* as a success: an unregistered tool name fails with MethodNotFound and   *)
(* no handler is invoked, an McpError thrown by a handler is passed on     *)
(* unchanged, and any other failure of a handler becomes InternalError.    *)
(***************************************************************************)
C25_FailuresAreMcpErrors ==
    /\ [](tcPc = "responded" => tcResp.kind \in {"success", "error"})
    /\ []((tcPc = "responded" /\ tcReq.name = "delete_everything") =>
              /\ tcInvoked = 0
              /\ tcResp.kind = "error"
              /\ tcResp.code = "MethodNotFound")
    /\ [][HandlerSettles =>
             LET out == ToolHandler(tcFs, tcCwd, tcReq).result IN
             CASE out.kind = "ok" -> tcResp'.kind = "success"
               [] out.kind = "mcp" ->
                     tcResp' = [kind |-> "error", code |-> out.code, body |-> out.body]
               [] OTHER -> tcResp'.kind = "error" /\ tcResp'.code = "InternalError"]_vars

\* copy_file has thrown the McpError of copyFile, and the caller has got it.
C25_Witness ==
    /\ tcPc = "responded"
    /\ tcReq.name = "copy_file"
    /\ tcInvoked = 1
    /\ tcResp = [kind |-> "error", code |-> "InvalidRequest",
                 body |-> <<"Destination file already exists: ", tcReq.destination>>]

(***************************************************************************)
(* C26: reading a directory as a file is rejected with the InvalidRequest  *)
(* error "Cannot read directory as file: <path>", by readFileWithMetadata  *)
(* and by a read_file tool call alike.                                     *)
(***************************************************************************)
C26_DirectoryReadRejected ==
    (tcPc = "responded" /\ tcReq.name \in {"read_file", "readFileWithMetadata"}
        /\ tcFs[tcReq.path].kind = "dir") =>
        tcResp = [kind |-> "error", code |-> "InvalidRequest",
                  body |-> <<"Cannot read directory as file: ", tcReq.path>>]

(***************************************************************************)
(* C21: copyFile and moveFile called with overwrite = false never replace  *)
(* an existing destination: a call that finds the destination fails with   *)
(* "Destination file already exists" and changes no file, and no call      *)
(* writes over a destination that exists, also when two calls with the     *)
(* same destination run concurrently.                                      *)
(***************************************************************************)
C21_NoOverwriteKeepsDestination ==
    [][\A c \in CpCallIds :
          /\ (AccessCheck(c) /\ cpFs[CpDest] # "none") =>
                 (cpCalls'[c].pc = "exists" /\ cpFs' = cpFs)
          /\ ((CopyFileAct(c) \/ MoveFileAct(c)) /\ cpFs[CpDest] # "none") =>
                 cpFs' = cpFs]_vars

\* The paths below a directory, relative to it.
CdRelPaths == {q \in UNION {[1..n -> {"d", "f", "o"}] : n \in 1..(MaxPathLen - 1)} : TRUE}

(***************************************************************************)
(* C22: copyDirectory(source, dest, overwrite = true) onto an existing     *)
(* destination overwrites it: when the call has resolved, every file of    *)
(* the source tree is in dest with the source's content, and an entry that *)
(* only the old destination had is no longer there.                        *)
(***************************************************************************)
C22_OverwriteReplacesDestination ==
    (cdPc = "done" /\ cdStart.overwrite /\ cdStart.dest = <<"t">>
        /\ cdStart.fs[<<"t">>].kind = "dir") =>
        \A q \in CdRelPaths :
            /\ cdStart.fs[<<"s">> \o q].kind = "file" =>
                   cdFs[<<"t">> \o q] = cdStart.fs[<<"s">> \o q]
            /\ (cdStart.fs[<<"t">> \o q].kind # "none"
                   /\ cdStart.fs[<<"s">> \o q].kind = "none") =>
                   cdFs[<<"t">> \o q].kind = "none"

(***************************************************************************)
(* C29: copyDirectory(source, dest) terminates for every finite source     *)
(* tree and every destination, a destination inside the source included:   *)
(* the call makes one copyDirectory call for each directory the source     *)
(* tree had when it began, and no more.                                    *)
(***************************************************************************)
C29_CallsBoundedBySourceTree ==
    cdPc # "idle" =>
        cdCalls <= Cardinality({p \in CdPaths :
                                   /\ IsPrefix(cdStart.source, p)
                                   /\ cdStart.fs[p].kind = "dir"})

(***************************************************************************)
(* C23: compareFiles on two distinct files with byte-identical content     *)
(* returns areIdentical = true and an empty differences record; on files   *)
(* whose content differs it returns areIdentical = false with              *)
(* differences.content set.                                                *)
(***************************************************************************)
C23_SameContentIsIdentical ==
    cmPc = "done" =>
        IF cmFile1.data = cmFile2.data
        THEN cmResult = [areIdentical |-> TRUE, differences |-> {}]
        ELSE ~cmResult.areIdentical /\ "content" \in cmResult.differences
====
